---- MODULE Spec2Model ----
(***************************************************************************)
(* Model of llm-gateway-rs: the key store and its Redis set of active key  *)
(* hashes (services/key_service.rs, middleware/auth.rs), the model/provider*)
(* store and its Redis hash of routes (services/model_service.rs,          *)
(* services/provider_service.rs, routes/admin.rs) and the chat-completions *)
(* handler with its shadow stream (routes/proxy.rs).                       *)
(*                                                                         *)
(* Every `.await` on Postgres or Redis is one atomic step of the calling   *)
(* task; tasks interleave between steps.                                   *)
(***************************************************************************)
EXTENDS Integers, Sequences, FiniteSets, TLC

\* ------------------------------------------------------------------ bounds
NProc == 2
MaxKeys == 2
MaxPlain == 2

Procs == 1..NProc
KeyIds == 1..MaxKeys
\* Plaintext 0 is a token the gateway never issued; 1..MaxPlain are the
\* tokens generate_key hands out, in order (Uuid::new_v4 never repeats).
Plains == 0..MaxPlain

\* SHA-256 hex digest, modelled as an injective map on the plaintexts.
hash_key(plain) == 100 + 7 * plain

Hashes == {hash_key(p) : p \in Plains}
NoHash == 0
NoId == 0

\* ------------------------------------------------------------------ state
VARIABLES
    keys,        \* table user_keys: id -> row
    redisKeys,   \* Redis set gateway:active_key_hashes
    nextPlain,   \* number of plaintexts generate_key has produced
    pc,          \* per task: the await point it is at
    loc,         \* per task: the locals of the running function
    revoked,     \* history: hashes a successful delete_key/rotate_key retired
    halted,      \* history: hashes whose delete_key stopped before its SREM
    wpc,         \* warm_up_redis: its await point
    whashes,     \* warm_up_redis: hashes still to SADD
    providers,   \* table providers: id -> row
    models,      \* table models: id -> row
    redisRoutes, \* Redis hash gateway:model_routes: name -> JSON string
    rpc,         \* per task of the route plane: its await point
    rloc,        \* per task of the route plane: its locals
    deletedNames,\* history: names a successful delete_model removed
    nextProv,    \* number of provider ids issued
    nextModel,   \* number of model ids issued
    serial,      \* history: no two route-plane calls have overlapped so far
    hpc,         \* chat_completions: the await point the handler is at
    req,         \* chat_completions: the locals of the handler
    upState,     \* upstream response body: open, eof, err or aborted
    upChunks,    \* chunks the upstream has produced so far
    polled,      \* number of those chunks poll_next has taken from `inner`
    client,      \* chunks poll_next has yielded to the client
    body,        \* response body holding the ShadowStream
    chan,        \* the unbounded channel shadow_tx -> shadow_rx
    txOpen,      \* shadow_tx has not been dropped
    apc,         \* spawned logging task: its await point
    agg,         \* spawned logging task: its locals
    requestLogs, \* rows of table request_logs inserted for the request
    tokensUsed,  \* user_keys.tokens_used of the calling key
    tokenBudget, \* user_keys.token_budget of the calling key
    bpc,         \* per request on that key: the await point it is at
    bloc,        \* per request on that key: its locals
    hist,        \* history of the usage commits and budget updates
    fpc,         \* request being forwarded: the await point it is at
    fwd,         \* request being forwarded: body, headers, route, outcome
    spc,         \* retention task: where its loop stands
    sweep,       \* retention task: configuration and history of its runs
    logTimes,    \* created_at of the rows of table request_logs
    now,         \* the store's clock, in days
    ppc,         \* SSE parser: called or not
    sse          \* SSE parser: the buffer it is given and what it returns

keyVars == <<keys, redisKeys, nextPlain, pc, loc, revoked, halted>>
warmVars == <<wpc, whashes>>
routeVars == <<providers, models, redisRoutes, rpc, rloc, deletedNames,
              nextProv, nextModel, serial>>
budgetVars == <<tokenBudget, bpc, bloc, hist>>
fwdVars == <<fpc, fwd>>
sweepVars == <<spc, sweep, logTimes, now>>
parseVars == <<ppc, sse>>
sideVars == <<fwdVars, sweepVars, parseVars>>
proxyVars == <<hpc, req, upState, upChunks, polled, client, body, chan,
              txOpen, apc, agg, requestLogs, tokensUsed>>
vars == <<keys, redisKeys, nextPlain, pc, loc, revoked, halted, wpc,
          whashes,
          providers, models, redisRoutes, rpc, rloc, deletedNames,
          nextProv, nextModel, serial, hpc, req, upState, upChunks, polled,
          client, body, chan, txOpen, apc, agg, requestLogs, tokensUsed,
          tokenBudget, bpc, bloc, hist, fpc, fwd, spc, sweep, logTimes, now,
          ppc, sse>>

\* token_budget NULL is "no limit"; the key plane keeps usage within
\* 0..MaxKeyUsed.
NoKeyBudget == 0 - 1
MaxKeyUsed == 1
KeyBudgets == {NoKeyBudget, MaxKeyUsed}

NoRow == [present |-> FALSE, key_hash |-> NoHash, is_active |-> FALSE,
          token_budget |-> NoKeyBudget, tokens_used |-> 0]
NoLoc == [op |-> "none", id |-> NoId, hash |-> NoHash, old |-> NoHash,
          gone |-> NoHash, new |-> NoHash, exists |-> FALSE, late |-> FALSE,
          torn |-> FALSE, solo |-> FALSE, at |-> "none",
          res |-> "none", key_id |-> NoId]

\* SELECT ... FROM user_keys WHERE key_hash = $1 AND is_active = TRUE
ActiveRowsByHash(h) ==
    {i \in KeyIds : keys[i].present /\ keys[i].is_active /\ keys[i].key_hash = h}

\* SELECT key_hash FROM user_keys WHERE is_active = TRUE
ActiveHashes ==
    {keys[i].key_hash : i \in {j \in KeyIds : keys[j].present /\ keys[j].is_active}}

\* SELECT * FROM user_keys WHERE id = $1 AND is_active = TRUE
ActiveRowById(i) == keys[i].present /\ keys[i].is_active

FreeIds == {i \in KeyIds : ~keys[i].present}

Quiescent == \A p \in Procs : pc[p] = "idle"

\* A call starts: its locals are set, and every call already in flight is
\* marked as having overlapped with another (history).
Begin(p, rec) ==
    [q \in Procs |->
        IF q = p THEN [rec EXCEPT !.solo = \A r \in Procs \ {p} : pc[r] = "idle"]
        ELSE [loc[q] EXCEPT !.solo = FALSE]]

\* `?` on a Postgres or Redis error: the call returns Err from the await
\* named by `at`; the statement that failed has changed nothing.
Failed(p, at) == [loc EXCEPT ![p].res = "error", ![p].at = at]

\* ------------------------------------------------------------ create_key
\* INSERT INTO user_keys (... is_active = TRUE ...), token_budget as given
\* and tokens_used left at its default 0.
CreateInsert(p) ==
    /\ pc[p] = "idle"
    /\ FreeIds # {}
    /\ nextPlain < MaxPlain
    /\ \E ok \in BOOLEAN, budget \in KeyBudgets :
         LET id == CHOOSE i \in FreeIds : \A j \in FreeIds : i <= j
             plain == nextPlain + 1
         IN IF ok
            THEN /\ keys' = [keys EXCEPT ![id] =
                               [present |-> TRUE, key_hash |-> hash_key(plain),
                                is_active |-> TRUE, token_budget |-> budget,
                                tokens_used |-> 0]]
                 /\ nextPlain' = plain
                 /\ loc' = Begin(p, [NoLoc EXCEPT !.op = "create", !.id = id,
                                                  !.new = hash_key(plain)])
                 /\ pc' = [pc EXCEPT ![p] = "c_sadd"]
            ELSE /\ loc' = Begin(p, [NoLoc EXCEPT !.op = "create",
                                                  !.res = "error",
                                                  !.at = "insert"])
                 /\ pc' = [pc EXCEPT ![p] = "done"]
                 /\ UNCHANGED <<keys, nextPlain>>
    /\ UNCHANGED <<redisKeys, revoked, halted, warmVars, routeVars, proxyVars,
                   budgetVars, sideVars>>

\* redis.sadd(REDIS_ACTIVE_KEYS_SET, &hash).await?; Ok(UserKeyCreated)
CreateSadd(p) ==
    /\ pc[p] = "c_sadd"
    /\ \E ok \in BOOLEAN :
         IF ok
         THEN /\ redisKeys' = redisKeys \cup {loc[p].new}
              /\ loc' = [loc EXCEPT ![p].res = "ok"]
         ELSE /\ redisKeys' = redisKeys
              /\ loc' = Failed(p, "sadd")
    /\ pc' = [pc EXCEPT ![p] = "done"]
    /\ UNCHANGED <<keys, nextPlain, revoked, halted, warmVars, routeVars,
                   proxyVars, budgetVars, sideVars>>

\* ---------------------------------------------------------- validate_key
\* Mutant: the SELECT without "AND is_active = TRUE".
ValidateSelectAnyRow(h) ==
    LET rows == {i \in KeyIds : keys[i].present /\ keys[i].key_hash = h}
    IN IF rows = {} THEN NoId ELSE CHOOSE i \in rows : TRUE

\* The row the two SELECTs of validate_key return for a hash.
ValidateSelect(h) ==
    IF ActiveRowsByHash(h) = {} THEN NoId
    ELSE CHOOSE i \in ActiveRowsByHash(h) : TRUE

\* let hash = hash_key(plain); redis.sismember(REDIS_ACTIVE_KEYS_SET, &hash)
ValidateSismember(p) ==
    /\ pc[p] = "idle"
    /\ \E plain \in 0..nextPlain, ok \in BOOLEAN :
         LET h == hash_key(plain)
             rec == [NoLoc EXCEPT !.op = "validate", !.hash = h,
                                  !.late = (h \in revoked),
                                  !.torn = (h \in halted)]
         IN IF ok
            THEN /\ loc' = Begin(p, [rec EXCEPT !.exists = (h \in redisKeys)])
                 /\ pc' = [pc EXCEPT ![p] =
                              IF h \in redisKeys THEN "v_fast" ELSE "v_slow"]
            ELSE /\ loc' = Begin(p, [rec EXCEPT !.res = "error",
                                                !.at = "sismember"])
                 /\ pc' = [pc EXCEPT ![p] = "done"]
    /\ UNCHANGED <<keys, redisKeys, nextPlain, revoked, halted, warmVars,
                   routeVars, proxyVars, budgetVars, sideVars>>

\* Fast path: the set held the hash; the row is still read from Postgres.
ValidateFast(p) ==
    /\ pc[p] = "v_fast"
    /\ \E ok \in BOOLEAN :
         LET id == ValidateSelect(loc[p].hash) IN
         loc' = IF ok
                THEN [loc EXCEPT ![p].key_id = id,
                                 ![p].res = IF id = NoId THEN "invalid"
                                            ELSE "valid"]
                ELSE Failed(p, "select")
    /\ pc' = [pc EXCEPT ![p] = "done"]
    /\ UNCHANGED <<keys, redisKeys, nextPlain, revoked, halted, warmVars,
                   routeVars, proxyVars, budgetVars, sideVars>>

\* Slow path: SELECT, then back-fill on a hit.
ValidateSlow(p) ==
    /\ pc[p] = "v_slow"
    /\ \E ok \in BOOLEAN :
         LET id == ValidateSelect(loc[p].hash) IN
         IF ~ok
         THEN /\ loc' = Failed(p, "select")
              /\ pc' = [pc EXCEPT ![p] = "done"]
         ELSE IF id = NoId
         THEN /\ loc' = [loc EXCEPT ![p].res = "invalid"]
              /\ pc' = [pc EXCEPT ![p] = "done"]
         ELSE /\ loc' = [loc EXCEPT ![p].key_id = id]
              /\ pc' = [pc EXCEPT ![p] = "v_sadd"]
    /\ UNCHANGED <<keys, redisKeys, nextPlain, revoked, halted, warmVars,
                   routeVars, proxyVars, budgetVars, sideVars>>

\* Backfill Redis: redis.sadd(..).await?; return Ok(Some(KeyValidation))
ValidateSadd(p) ==
    /\ pc[p] = "v_sadd"
    /\ \E ok \in BOOLEAN :
         IF ok
         THEN /\ redisKeys' = redisKeys \cup {loc[p].hash}
              /\ loc' = [loc EXCEPT ![p].res = "valid"]
         ELSE /\ redisKeys' = redisKeys
              /\ loc' = Failed(p, "sadd")
    /\ pc' = [pc EXCEPT ![p] = "done"]
    /\ UNCHANGED <<keys, nextPlain, revoked, halted, warmVars, routeVars,
                   proxyVars, budgetVars, sideVars>>

\* ------------------------------------------------------------ rotate_key
\* SELECT * FROM user_keys WHERE id = $1 AND is_active = TRUE.  The new
\* plaintext (generate_key, a local computation that reads no shared state)
\* is drawn here, so that the bound on issued plaintexts guards the call.
RotateSelect(p) ==
    /\ pc[p] = "idle"
    /\ \E id \in KeyIds, ok \in BOOLEAN :
         IF ~ok
         THEN /\ nextPlain' = nextPlain
              /\ loc' = Begin(p, [NoLoc EXCEPT !.op = "rotate", !.id = id,
                                               !.res = "error",
                                               !.at = "select"])
              /\ pc' = [pc EXCEPT ![p] = "done"]
         ELSE IF ActiveRowById(id)
         THEN /\ nextPlain < MaxPlain
              /\ nextPlain' = nextPlain + 1
              /\ loc' = Begin(p, [NoLoc EXCEPT !.op = "rotate", !.id = id,
                                               !.old = keys[id].key_hash,
                                               !.new = hash_key(nextPlain + 1)])
              /\ pc' = [pc EXCEPT ![p] = "r_srem"]
         ELSE /\ nextPlain' = nextPlain
              /\ loc' = Begin(p, [NoLoc EXCEPT !.op = "rotate", !.id = id,
                                               !.res = "not_found"])
              /\ pc' = [pc EXCEPT ![p] = "done"]
    /\ UNCHANGED <<keys, redisKeys, revoked, halted, warmVars, routeVars,
                   proxyVars, budgetVars, sideVars>>

\* redis.srem(REDIS_ACTIVE_KEYS_SET, &existing.key_hash).await?
RotateSrem(p) ==
    /\ pc[p] = "r_srem"
    /\ \E ok \in BOOLEAN :
         IF ok
         THEN /\ redisKeys' = redisKeys \ {loc[p].old}
              /\ pc' = [pc EXCEPT ![p] = "r_update"]
              /\ loc' = loc
         ELSE /\ redisKeys' = redisKeys
              /\ pc' = [pc EXCEPT ![p] = "done"]
              /\ loc' = Failed(p, "srem")
    /\ UNCHANGED <<keys, nextPlain, revoked, halted, warmVars, routeVars,
                   proxyVars, budgetVars, sideVars>>

\* Mutant: the UPDATE of rotate_key that also sets tokens_used = 0.
RotateUpdateResetsUsage(p) ==
    /\ pc[p] = "r_update"
    /\ \E ok \in BOOLEAN :
         IF ok
         THEN /\ keys' = [keys EXCEPT ![loc[p].id].key_hash = loc[p].new,
                                      ![loc[p].id].tokens_used = 0]
              /\ loc' = [loc EXCEPT ![p].gone = keys[loc[p].id].key_hash]
              /\ pc' = [pc EXCEPT ![p] = "r_sadd"]
         ELSE /\ keys' = keys
              /\ loc' = Failed(p, "update")
              /\ pc' = [pc EXCEPT ![p] = "done"]
    /\ UNCHANGED <<redisKeys, nextPlain, revoked, halted, warmVars, routeVars,
                   proxyVars, budgetVars, sideVars>>

\* UPDATE user_keys SET key_hash = $1, key_prefix = $2, updated_at = $3
\* WHERE id = $4 (.await?)
RotateUpdate(p) ==
    /\ pc[p] = "r_update"
    /\ \E ok \in BOOLEAN :
         IF ok
         THEN /\ keys' = [keys EXCEPT ![loc[p].id].key_hash = loc[p].new]
              /\ loc' = [loc EXCEPT ![p].gone = keys[loc[p].id].key_hash]
              /\ pc' = [pc EXCEPT ![p] = "r_sadd"]
         ELSE /\ keys' = keys
              /\ loc' = Failed(p, "update")
              /\ pc' = [pc EXCEPT ![p] = "done"]
    /\ UNCHANGED <<redisKeys, nextPlain, revoked, halted, warmVars, routeVars,
                   proxyVars, budgetVars, sideVars>>

\* redis.sadd(new hash).await?; Ok(UserKeyCreated)
RotateSadd(p) ==
    /\ pc[p] = "r_sadd"
    /\ \E ok \in BOOLEAN :
         IF ok
         THEN /\ redisKeys' = redisKeys \cup {loc[p].new}
              /\ revoked' = revoked \cup {loc[p].old, loc[p].gone}
              /\ loc' = [loc EXCEPT ![p].res = "ok"]
         ELSE /\ redisKeys' = redisKeys
              /\ revoked' = revoked
              /\ loc' = Failed(p, "sadd")
    /\ pc' = [pc EXCEPT ![p] = "done"]
    /\ UNCHANGED <<keys, nextPlain, halted, warmVars, routeVars, proxyVars,
                   budgetVars, sideVars>>

\* ------------------------------------------------------------ delete_key
\* SELECT * FROM user_keys WHERE id = $1 AND is_active = TRUE
DeleteSelect(p) ==
    /\ pc[p] = "idle"
    /\ \E id \in KeyIds, ok \in BOOLEAN :
         IF ~ok
         THEN /\ loc' = Begin(p, [NoLoc EXCEPT !.op = "delete", !.id = id,
                                               !.res = "error",
                                               !.at = "select"])
              /\ pc' = [pc EXCEPT ![p] = "done"]
         ELSE IF ActiveRowById(id)
         THEN /\ loc' = Begin(p, [NoLoc EXCEPT !.op = "delete", !.id = id,
                                               !.old = keys[id].key_hash])
              /\ pc' = [pc EXCEPT ![p] = "d_update"]
         ELSE /\ loc' = Begin(p, [NoLoc EXCEPT !.op = "delete", !.id = id,
                                               !.res = "not_found"])
              /\ pc' = [pc EXCEPT ![p] = "done"]
    /\ UNCHANGED <<keys, redisKeys, nextPlain, revoked, halted, warmVars,
                   routeVars, proxyVars, budgetVars, sideVars>>

\* Mutant: delete_key that only drops the hash from the cache and leaves
\* the row active.
DeleteUpdateKeepsActive(p) ==
    /\ pc[p] = "d_update"
    /\ loc' = [loc EXCEPT ![p].gone = keys[loc[p].id].key_hash]
    /\ pc' = [pc EXCEPT ![p] = "d_srem"]
    /\ UNCHANGED <<keys, redisKeys, nextPlain, revoked, halted, warmVars,
                   routeVars, proxyVars, budgetVars, sideVars>>

\* UPDATE user_keys SET is_active = FALSE ... WHERE id = $1 (.await?)
DeleteUpdate(p) ==
    /\ pc[p] = "d_update"
    /\ \E ok \in BOOLEAN :
         IF ok
         THEN /\ keys' = [keys EXCEPT ![loc[p].id].is_active = FALSE]
              /\ loc' = [loc EXCEPT ![p].gone = keys[loc[p].id].key_hash]
              /\ pc' = [pc EXCEPT ![p] = "d_srem"]
         ELSE /\ keys' = keys
              /\ loc' = Failed(p, "update")
              /\ pc' = [pc EXCEPT ![p] = "done"]
    /\ UNCHANGED <<redisKeys, nextPlain, revoked, halted, warmVars, routeVars,
                   proxyVars, budgetVars, sideVars>>

\* redis.srem(existing.key_hash).await?; Ok(()).  When the SREM fails the
\* call ends with the row inactive and the hash still in the set.
DeleteSrem(p) ==
    /\ pc[p] = "d_srem"
    /\ \E ok \in BOOLEAN :
         IF ok
         THEN /\ redisKeys' = redisKeys \ {loc[p].old}
              /\ revoked' = revoked \cup {loc[p].old, loc[p].gone}
              /\ halted' = halted
              /\ loc' = [loc EXCEPT ![p].res = "ok"]
         ELSE /\ redisKeys' = redisKeys
              /\ revoked' = revoked
              /\ halted' = halted \cup {loc[p].old}
              /\ loc' = Failed(p, "srem")
    /\ pc' = [pc EXCEPT ![p] = "done"]
    /\ UNCHANGED <<keys, nextPlain, warmVars, routeVars, proxyVars,
                   budgetVars, sideVars>>

\* ------------------------------------------------------ update_key_budget
\* Mutant: a budget update that also sets is_active = TRUE.
KeyBudgetUpdateReactivates ==
    /\ \E id \in KeyIds, budget \in KeyBudgets, reset_usage \in BOOLEAN :
         /\ keys[id].present
         /\ keys' = [keys EXCEPT ![id].token_budget = budget,
                                 ![id].is_active = TRUE,
                                 ![id].tokens_used =
                                     IF reset_usage THEN 0 ELSE @]
    /\ UNCHANGED <<redisKeys, nextPlain, pc, loc, revoked, halted, warmVars,
                   routeVars, proxyVars, budgetVars, sideVars>>

\* UPDATE user_keys SET token_budget = $1 [, tokens_used = 0] WHERE id = $2
\* RETURNING *: one statement, which does not test is_active; the call has
\* no other await.
KeyBudgetUpdate ==
    /\ \E id \in KeyIds, budget \in KeyBudgets, reset_usage \in BOOLEAN :
         /\ keys[id].present
         /\ keys' = [keys EXCEPT ![id].token_budget = budget,
                                 ![id].tokens_used =
                                     IF reset_usage THEN 0 ELSE @]
    /\ UNCHANGED <<redisKeys, nextPlain, pc, loc, revoked, halted, warmVars,
                   routeVars, proxyVars, budgetVars, sideVars>>

\* -------------------------------------------------- increment_tokens_used
\* UPDATE user_keys SET tokens_used = tokens_used + $1 WHERE id = $2
KeyUsageIncrement ==
    /\ \E id \in KeyIds, tokens \in 1..MaxKeyUsed :
         /\ keys[id].present
         /\ keys[id].tokens_used + tokens <= MaxKeyUsed
         /\ keys' = [keys EXCEPT ![id].tokens_used = @ + tokens]
    /\ UNCHANGED <<redisKeys, nextPlain, pc, loc, revoked, halted, warmVars,
                   routeVars, proxyVars, budgetVars, sideVars>>

\* The handler hands the result to the caller; the task ends.
Return(p) ==
    /\ pc[p] = "done"
    /\ pc' = [pc EXCEPT ![p] = "idle"]
    /\ loc' = [loc EXCEPT ![p] = NoLoc]
    /\ UNCHANGED <<keys, redisKeys, nextPlain, revoked, halted, warmVars,
                   routeVars, proxyVars, budgetVars, sideVars>>

\* --------------------------------------------------------- user_key_auth
\* The status user_key_auth answers with for a validate_key result:
\* Ok(None) is 401 "Invalid API key", Err(_) is 500, and Ok(Some(_)) runs
\* the handler (0).
AuthResponse(res) ==
    IF res = "invalid" THEN 401 ELSE IF res = "error" THEN 500 ELSE 0

\* --------------------------------------------------------- warm_up_redis
\* SELECT key_hash FROM user_keys WHERE is_active = TRUE
WarmSelect ==
    /\ wpc = "w_select"
    /\ whashes' = ActiveHashes
    /\ wpc' = IF ActiveHashes # {} THEN "w_del" ELSE "done"
    /\ UNCHANGED <<keyVars, routeVars, proxyVars, budgetVars, sideVars>>

\* if !hashes.is_empty() { DEL gateway:active_key_hashes
WarmDel ==
    /\ wpc = "w_del"
    /\ redisKeys' = {}
    /\ wpc' = "w_sadd"
    /\ UNCHANGED <<keys, nextPlain, pc, loc, revoked, halted, whashes, routeVars, proxyVars,
                   budgetVars, sideVars>>

\* for hash in &hashes { redis.sadd(..) }
WarmSadd ==
    /\ wpc = "w_sadd"
    /\ \E h \in whashes :
         /\ redisKeys' = redisKeys \cup {h}
         /\ whashes' = whashes \ {h}
         /\ wpc' = IF whashes = {h} THEN "done" ELSE "w_sadd"
    /\ UNCHANGED <<keys, nextPlain, pc, loc, revoked, halted, routeVars, proxyVars,
                   budgetVars, sideVars>>

\* main.rs: a gateway process starts and calls warm_up_redis.
WarmStart ==
    /\ wpc = "done"
    /\ wpc' = "w_select"
    /\ UNCHANGED <<whashes, keyVars, routeVars, proxyVars, budgetVars,
                   sideVars>>

\* ============================================================ route plane
MaxProv == 1
MaxModels == 1
MaxNames == 2
MaxCfg == 2

ProvIds == 1..MaxProv
ModelIds == 1..MaxModels
ModelNames == 1..MaxNames
\* A provider's (base_url, api_key, kind): the fields a ModelRoute copies
\* from the providers row, taken together as one value.
CfgVals == 1..MaxCfg

NoProvider == [present |-> FALSE, is_active |-> FALSE, cfg |-> 0]
NoModel == [present |-> FALSE, name |-> 0, provider_id |-> 0, is_active |-> FALSE]
\* Option<ModelRoute>::None
NoRoute == [provider_id |-> 0, cfg |-> 0]
\* HGET of a field that is not set
NoEntry == << >>
NoRLoc == [op |-> "none", name |-> 0, id |-> 0, row |-> NoModel,
           prow |-> NoProvider, route |-> NoRoute, rows |-> {},
           clean |-> FALSE, late |-> FALSE, res |-> "none"]

\* serde_json::to_string(&route)
Serialize(route) == <<route.provider_id, route.cfg>>

\* serde_json::from_str::<ModelRoute>(&json_str); an Err is a cache miss
Deserialize(json_str) ==
    IF Len(json_str) = 2
    THEN [provider_id |-> json_str[1], cfg |-> json_str[2]]
    ELSE NoRoute

\* models.name is unique
NameTaken(n, except) ==
    \E i \in ModelIds \ {except} : models[i].present /\ models[i].name = n

\* models.provider_id references providers(id)
Referenced(pid) ==
    \E i \in ModelIds : models[i].present /\ models[i].provider_id = pid

\* SELECT ... FROM models m JOIN providers p ON m.provider_id = p.id
\* WHERE m.name = $1 AND m.is_active = TRUE AND p.is_active = TRUE
JoinRows(n) ==
    {i \in ModelIds :
        /\ models[i].present /\ models[i].name = n /\ models[i].is_active
        /\ providers[models[i].provider_id].present
        /\ providers[models[i].provider_id].is_active}

\* The ModelRoute built from a row of that join.
StoreRoute(n) ==
    IF JoinRows(n) = {} THEN NoRoute
    ELSE LET i == CHOOSE j \in JoinRows(n) : TRUE
         IN [provider_id |-> models[i].provider_id,
             cfg |-> providers[models[i].provider_id].cfg]


AdminInFlight(q) == rpc[q] \notin {"idle", "done"} /\ rloc[q].op # "resolve"

\* A resolve call is `clean` while no admin operation has been in flight
\* since it started.
Touch(q) ==
    IF rloc[q].op = "resolve" THEN [rloc[q] EXCEPT !.clean = FALSE] ELSE rloc[q]

\* No other task is between its first step and its return.
Alone(p) == \A q \in Procs \ {p} : rpc[q] = "idle"

AdminStart(p, l) ==
    /\ rloc' = [q \in Procs |-> IF q = p THEN l ELSE Touch(q)]
    /\ serial' = (serial /\ Alone(p))

\* ------------------------------------------------------ create_provider
\* INSERT INTO providers (... is_active = TRUE ...)
CreateProvider(p) ==
    /\ rpc[p] = "idle"
    /\ nextProv < MaxProv
    /\ \E c \in CfgVals :
         providers' = [providers EXCEPT ![nextProv + 1] =
                          [present |-> TRUE, is_active |-> TRUE, cfg |-> c]]
    /\ nextProv' = nextProv + 1
    /\ AdminStart(p, [NoRLoc EXCEPT !.op = "create_provider", !.res = "ok"])
    /\ rpc' = [rpc EXCEPT ![p] = "done"]
    /\ UNCHANGED <<models, nextModel, redisRoutes, deletedNames, keyVars, warmVars,
                   proxyVars, budgetVars, sideVars>>

\* ------------------------------------------------- resolve_model_route
\* redis.hget(REDIS_MODEL_ROUTES_HASH, model_name); a hit that parses is
\* returned at once.
ResolveHget(p) ==
    /\ rpc[p] = "idle"
    /\ \E n \in ModelNames :
         LET route == Deserialize(redisRoutes[n])
             l == [NoRLoc EXCEPT !.op = "resolve", !.name = n,
                      !.clean = (\A q \in Procs \ {p} : ~AdminInFlight(q)),
                      !.late = (n \in deletedNames)]
         IN IF route # NoRoute
            THEN /\ rloc' = [rloc EXCEPT ![p] =
                                [l EXCEPT !.route = route, !.res = "some"]]
                 /\ rpc' = [rpc EXCEPT ![p] = "done"]
            ELSE /\ rloc' = [rloc EXCEPT ![p] = l]
                 /\ rpc' = [rpc EXCEPT ![p] = "rs_select"]
    /\ serial' = (serial /\ Alone(p))
    /\ UNCHANGED <<providers, models, nextProv, nextModel, redisRoutes,
                   deletedNames, keyVars, warmVars,
                   proxyVars, budgetVars, sideVars>>

\* Slow path: the join over active rows.
ResolveSelect(p) ==
    /\ rpc[p] = "rs_select"
    /\ LET route == StoreRoute(rloc[p].name) IN
       IF route = NoRoute
       THEN /\ rloc' = [rloc EXCEPT ![p].res = "none"]
            /\ rpc' = [rpc EXCEPT ![p] = "done"]
       ELSE /\ rloc' = [rloc EXCEPT ![p].route = route]
            /\ rpc' = [rpc EXCEPT ![p] = "rs_hset"]
    /\ UNCHANGED <<providers, models, nextProv, nextModel, redisRoutes,
                   deletedNames, keyVars, warmVars,
                   serial, proxyVars, budgetVars, sideVars>>

\* Backfill Redis: hset(model_name, json); Ok(Some(route))
ResolveHset(p) ==
    /\ rpc[p] = "rs_hset"
    /\ redisRoutes' = [redisRoutes EXCEPT ![rloc[p].name] = Serialize(rloc[p].route)]
    /\ rloc' = [rloc EXCEPT ![p].res = "some"]
    /\ rpc' = [rpc EXCEPT ![p] = "done"]
    /\ UNCHANGED <<providers, models, nextProv, nextModel, deletedNames,
                   keyVars, warmVars,
                   serial, proxyVars, budgetVars, sideVars>>

\* -------------------------------------------------------- create_model
\* SELECT * FROM providers WHERE id = $1 (no test of is_active)
CreateModelSelect(p) ==
    /\ rpc[p] = "idle"
    /\ nextModel < MaxModels
    /\ \E n \in ModelNames, pid \in ProvIds :
         IF providers[pid].present
         THEN /\ AdminStart(p, [NoRLoc EXCEPT !.op = "create_model", !.name = n,
                                   !.id = pid, !.prow = providers[pid]])
              /\ rpc' = [rpc EXCEPT ![p] = "cm_insert"]
         ELSE /\ AdminStart(p, [NoRLoc EXCEPT !.op = "create_model",
                                   !.res = "bad_request"])
              /\ rpc' = [rpc EXCEPT ![p] = "done"]
    /\ UNCHANGED <<providers, models, nextProv, nextModel, redisRoutes,
                   deletedNames, keyVars, warmVars,
                   proxyVars, budgetVars, sideVars>>

\* INSERT INTO models (... is_active = TRUE ...); a constraint violation is
\* an Err returned before the cache is touched.
CreateModelInsert(p) ==
    /\ rpc[p] = "cm_insert"
    /\ IF NameTaken(rloc[p].name, 0) \/ ~providers[rloc[p].id].present
          \/ nextModel >= MaxModels
       THEN /\ rloc' = [rloc EXCEPT ![p] =
                           [NoRLoc EXCEPT !.op = "create_model", !.res = "error"]]
            /\ rpc' = [rpc EXCEPT ![p] = "done"]
            /\ UNCHANGED <<models, nextModel, deletedNames>>
       ELSE /\ models' = [models EXCEPT ![nextModel + 1] =
                             [present |-> TRUE, name |-> rloc[p].name,
                              provider_id |-> rloc[p].id, is_active |-> TRUE]]
            /\ nextModel' = nextModel + 1
            /\ deletedNames' = deletedNames \ {rloc[p].name}
            /\ rpc' = [rpc EXCEPT ![p] = "cm_hset"]
            /\ UNCHANGED rloc
    /\ UNCHANGED <<providers, nextProv, redisRoutes, keyVars, warmVars,
                   serial, proxyVars, budgetVars, sideVars>>

\* cache_model_route: the route is built from the provider row read by the
\* first SELECT and written with HSET.
CreateModelHset(p) ==
    /\ rpc[p] = "cm_hset"
    /\ redisRoutes' = [redisRoutes EXCEPT ![rloc[p].name] =
                          Serialize([provider_id |-> rloc[p].id,
                                     cfg |-> rloc[p].prow.cfg])]
    /\ rloc' = [rloc EXCEPT ![p] =
                   [NoRLoc EXCEPT !.op = "create_model", !.res = "ok"]]
    /\ rpc' = [rpc EXCEPT ![p] = "done"]
    /\ UNCHANGED <<providers, models, nextProv, nextModel, deletedNames,
                   keyVars, warmVars,
                   serial, proxyVars, budgetVars, sideVars>>

\* -------------------------------------------------------- delete_model
\* SELECT * FROM models WHERE id = $1
DeleteModelSelect(p) ==
    /\ rpc[p] = "idle"
    /\ \E id \in ModelIds :
         IF models[id].present
         THEN /\ AdminStart(p, [NoRLoc EXCEPT !.op = "delete_model", !.id = id,
                                   !.name = models[id].name])
              /\ rpc' = [rpc EXCEPT ![p] = "dm_delete"]
         ELSE /\ AdminStart(p, [NoRLoc EXCEPT !.op = "delete_model",
                                   !.res = "not_found"])
              /\ rpc' = [rpc EXCEPT ![p] = "done"]
    /\ UNCHANGED <<providers, models, nextProv, nextModel, redisRoutes,
                   deletedNames, keyVars, warmVars,
                   proxyVars, budgetVars, sideVars>>

\* DELETE FROM models WHERE id = $1
DeleteModelDelete(p) ==
    /\ rpc[p] = "dm_delete"
    /\ models' = [models EXCEPT ![rloc[p].id] = NoModel]
    /\ rpc' = [rpc EXCEPT ![p] = "dm_hdel"]
    /\ UNCHANGED <<providers, nextProv, nextModel, redisRoutes, rloc,
                   deletedNames, keyVars, warmVars,
                   serial, proxyVars, budgetVars, sideVars>>

\* redis.hdel(REDIS_MODEL_ROUTES_HASH, &model.name); Ok(())
DeleteModelHdel(p) ==
    /\ rpc[p] = "dm_hdel"
    /\ redisRoutes' = [redisRoutes EXCEPT ![rloc[p].name] = NoEntry]
    /\ deletedNames' = IF NameTaken(rloc[p].name, 0) THEN deletedNames
                       ELSE deletedNames \cup {rloc[p].name}
    /\ rloc' = [rloc EXCEPT ![p] =
                   [NoRLoc EXCEPT !.op = "delete_model", !.res = "ok"]]
    /\ rpc' = [rpc EXCEPT ![p] = "done"]
    /\ UNCHANGED <<providers, models, nextProv, nextModel, keyVars, warmVars,
                   serial, proxyVars, budgetVars, sideVars>>

\* -------------------------------------------------------- update_model
\* SELECT * FROM models WHERE id = $1, and the new column values: each is
\* the request's value or, when the request omits it, the value just read.
\* A changed provider_id is looked up here too (SELECT * FROM providers).
UpdateModelSelect(p) ==
    /\ rpc[p] = "idle"
    /\ \E id \in ModelIds :
         IF ~models[id].present
         THEN /\ AdminStart(p, [NoRLoc EXCEPT !.op = "update_model",
                                   !.res = "not_found"])
              /\ rpc' = [rpc EXCEPT ![p] = "done"]
         ELSE \E n \in ModelNames, pid \in ProvIds, a \in BOOLEAN :
                IF pid # models[id].provider_id /\ ~providers[pid].present
                THEN /\ AdminStart(p, [NoRLoc EXCEPT !.op = "update_model",
                                          !.res = "bad_request"])
                     /\ rpc' = [rpc EXCEPT ![p] = "done"]
                ELSE /\ AdminStart(p, [NoRLoc EXCEPT !.op = "update_model",
                                          !.id = id, !.name = models[id].name,
                                          !.row = [present |-> TRUE, name |-> n,
                                                   provider_id |-> pid,
                                                   is_active |-> a]])
                     /\ rpc' = [rpc EXCEPT ![p] = "um_update"]
    /\ UNCHANGED <<providers, models, nextProv, nextModel, redisRoutes,
                   deletedNames, keyVars, warmVars,
                   proxyVars, budgetVars, sideVars>>

\* UPDATE models SET name = $1, provider_id = $2, ..., is_active = $4
\* WHERE id = $7.  A constraint violation is an Err; a row deleted meanwhile
\* is an UPDATE of zero rows, which is no error.
UpdateModelUpdate(p) ==
    /\ rpc[p] = "um_update"
    /\ LET id == rloc[p].id
           row == rloc[p].row
           next == IF row.name # rloc[p].name THEN "um_hdel" ELSE "w_select"
       IN IF ~models[id].present
          THEN /\ rpc' = [rpc EXCEPT ![p] = next]
               /\ UNCHANGED <<models, deletedNames, rloc>>
          ELSE IF NameTaken(row.name, id) \/ ~providers[row.provider_id].present
          THEN /\ rloc' = [rloc EXCEPT ![p] =
                              [NoRLoc EXCEPT !.op = "update_model", !.res = "error"]]
               /\ rpc' = [rpc EXCEPT ![p] = "done"]
               /\ UNCHANGED <<models, deletedNames>>
          ELSE /\ models' = [models EXCEPT ![id] = row]
               /\ deletedNames' = deletedNames \ {row.name}
               /\ rpc' = [rpc EXCEPT ![p] = next]
               /\ UNCHANGED rloc
    /\ UNCHANGED <<providers, nextProv, nextModel, redisRoutes, keyVars, warmVars,
                   serial, proxyVars, budgetVars, sideVars>>

\* if new_name != existing.name { redis.hdel(.., &existing.name) }
UpdateModelHdel(p) ==
    /\ rpc[p] = "um_hdel"
    /\ redisRoutes' = [redisRoutes EXCEPT ![rloc[p].name] = NoEntry]
    /\ rpc' = [rpc EXCEPT ![p] = "w_select"]
    /\ UNCHANGED <<providers, models, nextProv, nextModel, rloc, deletedNames,
                   keyVars, warmVars,
                   serial, proxyVars, budgetVars, sideVars>>

\* ----------------------------------------------------- update_provider
\* SELECT * FROM providers WHERE id = $1, and the new column values (the
\* request's, or the ones just read).
UpdateProviderSelect(p) ==
    /\ rpc[p] = "idle"
    /\ \E id \in ProvIds :
         IF ~providers[id].present
         THEN /\ AdminStart(p, [NoRLoc EXCEPT !.op = "update_provider",
                                   !.res = "not_found"])
              /\ rpc' = [rpc EXCEPT ![p] = "done"]
         ELSE \E c \in CfgVals, a \in BOOLEAN :
                /\ AdminStart(p, [NoRLoc EXCEPT !.op = "update_provider", !.id = id,
                                     !.prow = [present |-> TRUE, is_active |-> a,
                                               cfg |-> c]])
                /\ rpc' = [rpc EXCEPT ![p] = "up_update"]
    /\ UNCHANGED <<providers, models, nextProv, nextModel, redisRoutes,
                   deletedNames, keyVars, warmVars,
                   proxyVars, budgetVars, sideVars>>

\* UPDATE providers SET ... WHERE id = $6, then SELECT the row (fetch_one:
\* a row deleted meanwhile is an Err, before the cache rebuild).
UpdateProviderUpdate(p) ==
    /\ rpc[p] = "up_update"
    /\ IF providers[rloc[p].id].present
       THEN /\ providers' = [providers EXCEPT ![rloc[p].id] = rloc[p].prow]
            /\ rloc' = [rloc EXCEPT ![p] = [NoRLoc EXCEPT !.op = "update_provider"]]
            /\ rpc' = [rpc EXCEPT ![p] = "w_select"]
       ELSE /\ rloc' = [rloc EXCEPT ![p] =
                           [NoRLoc EXCEPT !.op = "update_provider", !.res = "error"]]
            /\ rpc' = [rpc EXCEPT ![p] = "done"]
            /\ UNCHANGED providers
    /\ UNCHANGED <<models, nextProv, nextModel, redisRoutes, deletedNames,
                   keyVars, warmVars,
                   serial, proxyVars, budgetVars, sideVars>>

\* ----------------------------------------------------- delete_provider
\* DELETE FROM providers WHERE id = $1: an Err while a model references
\* the row, NotFound when no row was deleted.
DeleteProvider(p) ==
    /\ rpc[p] = "idle"
    /\ \E id \in ProvIds :
         IF Referenced(id)
         THEN /\ AdminStart(p, [NoRLoc EXCEPT !.op = "delete_provider",
                                   !.res = "error"])
              /\ rpc' = [rpc EXCEPT ![p] = "done"]
              /\ UNCHANGED providers
         ELSE IF ~providers[id].present
         THEN /\ AdminStart(p, [NoRLoc EXCEPT !.op = "delete_provider",
                                   !.res = "not_found"])
              /\ rpc' = [rpc EXCEPT ![p] = "done"]
              /\ UNCHANGED providers
         ELSE /\ providers' = [providers EXCEPT ![id] = NoProvider]
              /\ AdminStart(p, [NoRLoc EXCEPT !.op = "delete_provider"])
              /\ rpc' = [rpc EXCEPT ![p] = "w_select"]
    /\ UNCHANGED <<models, nextProv, nextModel, redisRoutes, deletedNames,
                   keyVars, warmVars,
                   proxyVars, budgetVars, sideVars>>

\* ------------------------------------------------ warm_up_model_routes
\* SELECT the join of active models and active providers (all rows).
WarmRoutesSelect(p) ==
    /\ rpc[p] = "w_select"
    /\ rloc' = [rloc EXCEPT ![p].rows =
                   {<<n, Serialize(StoreRoute(n))>> :
                        n \in {m \in ModelNames : StoreRoute(m) # NoRoute}}]
    /\ rpc' = [rpc EXCEPT ![p] = "w_del"]
    /\ UNCHANGED <<providers, models, nextProv, nextModel, redisRoutes,
                   deletedNames, keyVars, warmVars,
                   serial, proxyVars, budgetVars, sideVars>>

\* DEL gateway:model_routes
WarmRoutesDel(p) ==
    /\ rpc[p] = "w_del"
    /\ redisRoutes' = [n \in ModelNames |-> NoEntry]
    /\ IF rloc[p].rows = {}
       THEN /\ rloc' = [rloc EXCEPT ![p].res = "ok"]
            /\ rpc' = [rpc EXCEPT ![p] = "done"]
       ELSE /\ rpc' = [rpc EXCEPT ![p] = "w_hset"]
            /\ UNCHANGED rloc
    /\ UNCHANGED <<providers, models, nextProv, nextModel, deletedNames,
                   keyVars, warmVars,
                   serial, proxyVars, budgetVars, sideVars>>

\* for r in &rows { redis.hset(.., &r.model_name, &json_str) }; the handler
\* returns after the last one.
WarmRoutesHset(p) ==
    /\ rpc[p] = "w_hset"
    /\ \E r \in rloc[p].rows :
         /\ redisRoutes' = [redisRoutes EXCEPT ![r[1]] = r[2]]
         /\ IF rloc[p].rows = {r}
            THEN /\ rloc' = [rloc EXCEPT ![p].rows = {}, ![p].res = "ok"]
                 /\ rpc' = [rpc EXCEPT ![p] = "done"]
            ELSE /\ rloc' = [rloc EXCEPT ![p].rows = rloc[p].rows \ {r}]
                 /\ rpc' = [rpc EXCEPT ![p] = "w_hset"]
    /\ UNCHANGED <<providers, models, nextProv, nextModel, deletedNames,
                   keyVars, warmVars,
                   serial, proxyVars, budgetVars, sideVars>>

\* The handler hands the result to the caller; the task ends.
ReturnRoute(p) ==
    /\ rpc[p] = "done"
    /\ rpc' = [rpc EXCEPT ![p] = "idle"]
    /\ rloc' = [rloc EXCEPT ![p] = NoRLoc]
    /\ UNCHANGED <<providers, models, nextProv, nextModel, redisRoutes,
                   deletedNames, keyVars, warmVars,
                   serial, proxyVars, budgetVars, sideVars>>

\* ----------------------------------------------------- chat_completions
MaxChunks == 2
MaxChunkVal == 4
MaxBudget == 1
MaxUsed == 1

NoUsage == -1
NoBudget == -1

\* One chunk stands for one SSE event (or one JSON body): 0 carries no
\* `usage` object, k > 0 carries usage.total_tokens = k - 1.
ChunkVals == 0..MaxChunkVal
Budgets == {NoBudget} \cup 0..MaxBudget
UpStatuses == {200, 500}

\* The largest value an i32 holds, scaled so that the largest total a chunk
\* can report lies one above it.
I32Max == MaxChunkVal - 2

\* `v as i32`: the low 32 bits of an i64, read as a signed number.
as_i32(v) == ((v + I32Max + 1) % (2 * (I32Max + 1))) - (I32Max + 1)

\* usage.total_tokens as the JSON reports it.
TotalIn(chunk) == IF chunk = 0 THEN NoUsage ELSE chunk - 1

\* .and_then(|v| v.as_i64()).map(|v| v as i32)
UsageOf(chunk) ==
    IF TotalIn(chunk) = NoUsage THEN NoUsage ELSE as_i32(TotalIn(chunk))

\* The KeyIdentity the auth middleware attached to the request.
Identities == [token_budget : Budgets, tokens_used : 0..MaxUsed]
NoIdentity == [token_budget |-> NoBudget, tokens_used |-> 0]

\* Values of the request's "stream" and "stream_options" fields.
StreamVals == {"absent", "true", "false", "other"}
OptionVals == {"absent", "null", "custom"}

NoReq == [body |-> "none", identity |-> NoIdentity, stream |-> "absent",
          stream_options |-> "absent", is_stream |-> FALSE, status |-> 0,
          msg |-> << >>, resolved |-> FALSE, sent_options |-> "unsent",
          up_status |-> 0, err_item |-> FALSE]
NoAgg == [buffer |-> << >>, total |-> NoUsage, at |-> "none", runs |-> 0,
          log_err |-> FALSE, incr_tried |-> FALSE, incr_err |-> FALSE]

\* parse_sse_usage_and_body: the last usage.total_tokens found in the buffer.
RECURSIVE parse_sse_usage_and_body(_)
parse_sse_usage_and_body(buffer) ==
    IF buffer = << >> THEN NoUsage
    ELSE LET u == UsageOf(buffer[Len(buffer)]) IN
         IF u # NoUsage THEN u
         ELSE parse_sse_usage_and_body(SubSeq(buffer, 1, Len(buffer) - 1))

\* chunk.to_vec(): a byte-for-byte copy of the chunk.
to_vec(chunk) == chunk

\* body_json.get("stream").and_then(|v| v.as_bool()).unwrap_or(false)
IsStream(stream) == stream = "true"

\* The budget test with `>` for `>=` (not the code).
BudgetExhaustedStrict(identity) ==
    /\ identity.token_budget # NoBudget
    /\ identity.tokens_used > identity.token_budget

\* if let Some(budget) = token_budget { if tokens_used >= budget { 429 } }
BudgetExhausted(identity) ==
    /\ identity.token_budget # NoBudget
    /\ identity.tokens_used >= identity.token_budget

\* stream_options forced whenever the request streams (not the code).
StreamOptionsSentAlways(is_stream, options) ==
    IF is_stream THEN "include_usage" ELSE options

\* if is_stream && body_json.get("stream_options").is_none() { insert }
StreamOptionsSent(is_stream, options) ==
    IF is_stream /\ options = "absent" THEN "include_usage" ELSE options

\* The handler returns `Err(response)` with this status and nothing else
\* happens for the request.
Reject(r, code) ==
    /\ req' = [r EXCEPT !.status = code]
    /\ hpc' = "returned"

\* Synchronous prefix of the handler: parse the JSON body, read "model" and
\* "stream", compare the identity's usage with its budget.
HandlerStart ==
    /\ hpc = "idle"
    /\ \E b \in {"bad_json", "no_model", "ok"}, identity \in Identities,
          s \in StreamVals, o \in OptionVals :
         LET r == [req EXCEPT !.body = b, !.identity = identity] IN
         IF b # "ok"
         THEN Reject(r, 400)
         ELSE IF BudgetExhausted(identity)
         THEN Reject([r EXCEPT !.msg = <<identity.tokens_used,
                                         identity.token_budget>>], 429)
         ELSE /\ req' = [r EXCEPT !.stream = s, !.stream_options = o,
                                  !.is_stream = IsStream(s)]
              /\ hpc' = "resolve"
    /\ UNCHANGED <<upState, upChunks, polled, client, body, chan, txOpen, apc,
                   agg, requestLogs, tokensUsed, keyVars, warmVars, routeVars,
                   budgetVars, sideVars>>

\* resolve_model_route(..).await: Err -> 500, Ok(None) -> 400; with a route
\* the body for the upstream is built (stream_options injected).
HandlerResolve ==
    /\ hpc = "resolve"
    /\ LET r == [req EXCEPT !.resolved = TRUE] IN
       \E res \in {"err", "none", "some"} :
         IF res = "err" THEN Reject(r, 500)
         ELSE IF res = "none" THEN Reject(r, 400)
         ELSE /\ hpc' = "send"
              /\ req' = [r EXCEPT !.sent_options =
                            StreamOptionsSent(req.is_stream, req.stream_options)]
    /\ UNCHANGED <<upState, upChunks, polled, client, body, chan, txOpen, apc,
                   agg, requestLogs, tokensUsed, keyVars, warmVars, routeVars,
                   budgetVars, sideVars>>

\* StatusCode::from_u16(code).unwrap_or(StatusCode::BAD_GATEWAY)
from_u16(code) == IF code \in 100..999 THEN code ELSE 502

\* upstream_req.send().await: Err -> 502. With the response headers in hand
\* a streaming request builds the ShadowStream body, spawns the aggregator
\* and returns the response; any other request goes on to read the body.
HandlerSend ==
    /\ hpc = "send"
    /\ \/ /\ Reject(req, 502)
          /\ UNCHANGED <<upState, body, txOpen, apc>>
       \/ \E st \in UpStatuses :
            /\ upState' = "open"
            /\ req' = [req EXCEPT !.up_status = st, !.status = from_u16(st)]
            /\ IF req.is_stream
               THEN /\ hpc' = "returned"
                    /\ body' = "live"
                    /\ txOpen' = TRUE
                    /\ apc' = "recv"
               ELSE /\ hpc' = "read_body"
                    /\ UNCHANGED <<body, txOpen, apc>>
    /\ UNCHANGED <<upChunks, polled, client, chan, agg, requestLogs,
                   tokensUsed, keyVars, warmVars, routeVars,
                   budgetVars, sideVars>>

\* upstream_resp.bytes().await: Err -> 502; otherwise the usage is read from
\* the JSON body, the logging task is spawned and the response, whose body
\* is Body::from(response_bytes), is returned.
HandlerReadBody ==
    /\ hpc = "read_body"
    /\ \/ /\ Reject(req, 502)
          /\ upState' = "err"
          /\ UNCHANGED <<apc, agg, upChunks, client>>
       \/ \E c \in ChunkVals :
            /\ upState' = "eof"
            /\ upChunks' = <<c>>
            /\ client' = <<c>>
            /\ agg' = [agg EXCEPT !.total = UsageOf(c), !.at = "eof",
                                  !.runs = @ + 1]
            /\ apc' = "ns_insert"
            /\ hpc' = "returned"
            /\ UNCHANGED req
    /\ UNCHANGED <<polled, body, chan, txOpen, requestLogs,
                   tokensUsed, keyVars, warmVars, routeVars,
                   budgetVars, sideVars>>

\* ------------------------------------------------------ upstream stream
Streaming == req.is_stream /\ hpc = "returned" /\ upState = "open"

\* The provider sends one more chunk of the response body.
UpstreamChunk ==
    /\ Streaming
    /\ Len(upChunks) < MaxChunks
    /\ \E c \in ChunkVals : upChunks' = Append(upChunks, c)
    /\ UNCHANGED <<hpc, req, upState, polled, client, body, chan, txOpen, apc,
                   agg, requestLogs, tokensUsed, keyVars, warmVars, routeVars,
                   budgetVars, sideVars>>

\* The provider ends the body.
UpstreamEof ==
    /\ Streaming
    /\ upState' = "eof"
    /\ UNCHANGED <<hpc, req, upChunks, polled, client, body, chan, txOpen, apc,
                   agg, requestLogs, tokensUsed, keyVars, warmVars, routeVars,
                   budgetVars, sideVars>>

\* The connection to the provider fails before the body has ended.
UpstreamErr ==
    /\ Streaming
    /\ upState' = "err"
    /\ UNCHANGED <<hpc, req, upChunks, polled, client, body, chan, txOpen, apc,
                   agg, requestLogs, tokensUsed, keyVars, warmVars, routeVars,
                   budgetVars, sideVars>>

\* --------------------------------------------------------- ShadowStream
\* poll_next with the chunk sent down the channel but never yielded (not the
\* code).
PollNextDropsChunk ==
    /\ body = "live"
    /\ IF polled < Len(upChunks)
       THEN /\ polled' = polled + 1
            /\ chan' = Append(chan, to_vec(upChunks[polled + 1]))
            /\ UNCHANGED <<body, client, req>>
       ELSE /\ upState \in {"eof", "err"}
            /\ body' = IF upState = "eof" THEN "ended" ELSE "errored"
            /\ req' = [req EXCEPT !.err_item = (upState = "err")]
            /\ UNCHANGED <<polled, chan, client>>
    /\ UNCHANGED <<hpc, upState, upChunks, txOpen, apc, agg, requestLogs,
                   tokensUsed, keyVars, warmVars, routeVars,
                   budgetVars, sideVars>>

\* poll_next that ends the body on an upstream error instead of yielding the
\* error (not the code).
PollNextSwallowsError ==
    /\ body = "live"
    /\ IF polled < Len(upChunks)
       THEN /\ polled' = polled + 1
            /\ chan' = Append(chan, to_vec(upChunks[polled + 1]))
            /\ client' = Append(client, upChunks[polled + 1])
            /\ UNCHANGED body
       ELSE /\ upState \in {"eof", "err"}
            /\ body' = "ended"
            /\ UNCHANGED <<polled, chan, client>>
    /\ UNCHANGED <<hpc, req, upState, upChunks, txOpen, apc, agg, requestLogs,
                   tokensUsed, keyVars, warmVars, routeVars,
                   budgetVars, sideVars>>

\* poll_next that yields a chunk without sending its copy down the channel
\* (not the code).
PollNextSkipsCopy ==
    /\ body = "live"
    /\ IF polled < Len(upChunks)
       THEN /\ polled' = polled + 1
            /\ client' = Append(client, upChunks[polled + 1])
            /\ UNCHANGED <<body, chan, req>>
       ELSE /\ upState \in {"eof", "err"}
            /\ body' = IF upState = "eof" THEN "ended" ELSE "errored"
            /\ req' = [req EXCEPT !.err_item = (upState = "err")]
            /\ UNCHANGED <<polled, chan, client>>
    /\ UNCHANGED <<hpc, upState, upChunks, txOpen, apc, agg, requestLogs,
                   tokensUsed, keyVars, warmVars, routeVars,
                   budgetVars, sideVars>>

\* poll_next that holds the chunks back until the upstream has ended (not
\* the code).
PollNextBuffered ==
    /\ body = "live"
    /\ upState \in {"eof", "err"}
    /\ IF polled < Len(upChunks)
       THEN /\ polled' = polled + 1
            /\ chan' = Append(chan, to_vec(upChunks[polled + 1]))
            /\ client' = Append(client, upChunks[polled + 1])
            /\ UNCHANGED <<body, req>>
       ELSE /\ body' = IF upState = "eof" THEN "ended" ELSE "errored"
            /\ req' = [req EXCEPT !.err_item = (upState = "err")]
            /\ UNCHANGED <<polled, chan, client>>
    /\ UNCHANGED <<hpc, upState, upChunks, txOpen, apc, agg, requestLogs,
                   tokensUsed, keyVars, warmVars, routeVars,
                   budgetVars, sideVars>>

\* ShadowStream::poll_next, the three Ready arms (Pending changes nothing):
\* Some(Ok(chunk)) sends a copy down the channel and yields the chunk,
\* Some(Err(e)) yields the error, None ends the body.
PollNext ==
    /\ body = "live"
    /\ IF polled < Len(upChunks)
       THEN /\ polled' = polled + 1
            /\ chan' = Append(chan, to_vec(upChunks[polled + 1]))
            /\ client' = Append(client, upChunks[polled + 1])
            /\ UNCHANGED <<body, req>>
       ELSE /\ upState \in {"eof", "err"}
            /\ body' = IF upState = "eof" THEN "ended" ELSE "errored"
            /\ req' = [req EXCEPT !.err_item = (upState = "err")]
            /\ UNCHANGED <<polled, chan, client>>
    /\ UNCHANGED <<hpc, upState, upChunks, txOpen, apc, agg, requestLogs,
                   tokensUsed, keyVars, warmVars, routeVars,
                   budgetVars, sideVars>>

\* The server drops a response body that has ended or failed, and with it
\* the ShadowStream and its sender `tx`.
BodyDrop ==
    /\ body \in {"ended", "errored"}
    /\ body' = "dropped"
    /\ txOpen' = FALSE
    /\ UNCHANGED <<hpc, req, upState, upChunks, polled, client, chan, apc, agg,
                   requestLogs, tokensUsed, keyVars, warmVars, routeVars,
                   budgetVars, sideVars>>

\* The client goes away while the body is being served: the server drops
\* the body, so `tx` is dropped and `inner`, the upstream response, with it.
ClientDisconnect ==
    /\ body = "live"
    /\ body' = "dropped"
    /\ txOpen' = FALSE
    /\ upState' = IF upState = "open" THEN "aborted" ELSE upState
    /\ UNCHANGED <<hpc, req, upChunks, polled, client, chan, apc, agg,
                   requestLogs, tokensUsed, keyVars, warmVars, routeVars,
                   budgetVars, sideVars>>

\* ------------------------------------------------- the aggregator task
\* A receive loop that never sees the channel close (not the code).
AggRecvNeverCloses ==
    /\ apc = "recv"
    /\ chan # << >>
    /\ agg' = [agg EXCEPT !.buffer = Append(@, Head(chan))]
    /\ chan' = Tail(chan)
    /\ UNCHANGED <<hpc, req, upState, upChunks, polled, client, body, txOpen,
                   apc, requestLogs, tokensUsed, keyVars, warmVars, routeVars,
                   budgetVars, sideVars>>

\* while let Some(chunk) = shadow_rx.recv().await { buffer.extend(chunk) }
\* recv() yields None once the channel is empty and `tx` is dropped; the
\* task then parses the buffer.
AggRecv ==
    /\ apc = "recv"
    /\ IF chan # << >>
       THEN /\ agg' = [agg EXCEPT !.buffer = Append(@, Head(chan))]
            /\ chan' = Tail(chan)
            /\ UNCHANGED apc
       ELSE /\ ~txOpen
            /\ agg' = [agg EXCEPT !.total = parse_sse_usage_and_body(agg.buffer),
                                  !.at = upState, !.runs = @ + 1]
            /\ apc' = "insert"
            /\ UNCHANGED chan
    /\ UNCHANGED <<hpc, req, upState, upChunks, polled, client, body, txOpen,
                   requestLogs, tokensUsed, keyVars, warmVars, routeVars,
                   budgetVars, sideVars>>

LogRow(stream) == [status_code |-> req.status, is_stream |-> stream,
                   total_tokens |-> agg.total]

AfterInsert(incr) == IF agg.total # NoUsage /\ agg.total > 0 THEN incr ELSE "done"

\* A logging task that gives up when the insert fails (not the code).
AggInsertPropagatesError ==
    /\ apc = "insert"
    /\ \E ok \in BOOLEAN :
         /\ requestLogs' = IF ok THEN Append(requestLogs, LogRow(TRUE))
                           ELSE requestLogs
         /\ agg' = [agg EXCEPT !.log_err = ~ok]
         /\ apc' = IF ok THEN AfterInsert("incr") ELSE "done"
    /\ UNCHANGED <<hpc, req, upState, upChunks, polled, client, body, chan,
                   txOpen, tokensUsed, keyVars, warmVars, routeVars,
                   budgetVars, sideVars>>

\* if let Err(e) = log_service::insert_log(.., is_stream: true, ..).await
\* { tracing::error!(..) }: the row is inserted or the error is logged, and
\* the task goes on.
AggInsert ==
    /\ apc = "insert"
    /\ \E ok \in BOOLEAN :
         /\ requestLogs' = IF ok THEN Append(requestLogs, LogRow(TRUE))
                           ELSE requestLogs
         /\ agg' = [agg EXCEPT !.log_err = ~ok]
    /\ apc' = AfterInsert("incr")
    /\ UNCHANGED <<hpc, req, upState, upChunks, polled, client, body, chan,
                   txOpen, tokensUsed, keyVars, warmVars, routeVars,
                   budgetVars, sideVars>>

\* if let Err(e) = key_service::increment_tokens_used(key_id, tokens).await
\* { tracing::error!(..) }
AggIncrement ==
    /\ apc = "incr"
    /\ \E ok \in BOOLEAN :
         /\ tokensUsed' = IF ok THEN tokensUsed + agg.total ELSE tokensUsed
         /\ agg' = [agg EXCEPT !.incr_tried = TRUE, !.incr_err = ~ok]
    /\ apc' = "done"
    /\ UNCHANGED <<hpc, req, upState, upChunks, polled, client, body, chan,
                   txOpen, requestLogs, keyVars, warmVars, routeVars,
                   budgetVars, sideVars>>

\* The task a non-streaming request spawns: insert_log(.., is_stream: false)
\* with the same handling of an Err.
LogInsert ==
    /\ apc = "ns_insert"
    /\ \E ok \in BOOLEAN :
         /\ requestLogs' = IF ok THEN Append(requestLogs, LogRow(FALSE))
                           ELSE requestLogs
         /\ agg' = [agg EXCEPT !.log_err = ~ok]
    /\ apc' = AfterInsert("ns_incr")
    /\ UNCHANGED <<hpc, req, upState, upChunks, polled, client, body, chan,
                   txOpen, tokensUsed, keyVars, warmVars, routeVars,
                   budgetVars, sideVars>>

LogIncrement ==
    /\ apc = "ns_incr"
    /\ \E ok \in BOOLEAN :
         /\ tokensUsed' = IF ok THEN tokensUsed + agg.total ELSE tokensUsed
         /\ agg' = [agg EXCEPT !.incr_tried = TRUE, !.incr_err = ~ok]
    /\ apc' = "done"
    /\ UNCHANGED <<hpc, req, upState, upChunks, polled, client, body, chan,
                   txOpen, requestLogs, keyVars, warmVars, routeVars,
                   budgetVars, sideVars>>

\* ------------------------------------------ requests on one key: budget
\* N requests that carry the same active key, followed through the steps
\* that read or write its user_keys row; what lies between the budget check
\* and the usage commit is reduced to the total the logging task parsed.
MaxRequests == 3
MaxUpdates == 1

\* The plaintext and the row id of the key the requests carry.
TheKey == 1

NoBLoc == [identity |-> NoIdentity, exists |-> FALSE, late |-> FALSE,
           below |-> FALSE, cost |-> NoUsage, status |-> 0]
NoHist == [started |-> 0, updates |-> 0, changed |-> FALSE, reset |-> FALSE,
           last_reset |-> FALSE, exhausted |-> FALSE, charged |-> 0,
           admitted |-> 0]

\* A commit for every total that is present, positive or not (not the code).
ShouldIncrementAny(total) == total # NoUsage

\* if let Some(tokens) = total_tokens { if tokens > 0 { increment } }
ShouldIncrement(total) == total # NoUsage /\ total > 0

\* redis.sismember(REDIS_ACTIVE_KEYS_SET, &hash) for the request's key.
AuthSismember(p) ==
    /\ bpc[p] = "idle"
    /\ hist.started < MaxRequests
    /\ hist' = [hist EXCEPT !.started = @ + 1]
    /\ bloc' = [bloc EXCEPT ![p] =
                   [NoBLoc EXCEPT !.exists = (hash_key(TheKey) \in redisKeys)]]
    /\ bpc' = [bpc EXCEPT ![p] = "b_select"]
    /\ UNCHANGED <<tokenBudget, tokensUsed, keyVars, warmVars, routeVars,
                   hpc, req, upState, upChunks, polled, client, body, chan,
                   txOpen, apc, agg, requestLogs, sideVars>>

\* An identity that takes its numbers from the store only on a cache miss
\* (not the code).
AuthSelectTrustsCache(p) ==
    /\ bpc[p] = "b_select"
    /\ bloc' = [bloc EXCEPT
                  ![p].identity =
                      IF bloc[p].exists
                      THEN [token_budget |-> tokenBudget, tokens_used |-> 0]
                      ELSE [token_budget |-> tokenBudget,
                            tokens_used |-> tokensUsed],
                  ![p].late = hist.exhausted,
                  ![p].below = (tokenBudget # NoBudget /\ tokensUsed < tokenBudget)]
    /\ bpc' = [bpc EXCEPT ![p] = IF bloc[p].exists THEN "b_check" ELSE "b_sadd"]
    /\ UNCHANGED <<tokenBudget, tokensUsed, hist, keyVars, warmVars, routeVars,
                   hpc, req, upState, upChunks, polled, client, body, chan,
                   txOpen, apc, agg, requestLogs, sideVars>>

\* SELECT id, token_budget, tokens_used FROM user_keys WHERE key_hash = $1
\* AND is_active = TRUE: the same query on the fast and on the slow path.
AuthSelect(p) ==
    /\ bpc[p] = "b_select"
    /\ bloc' = [bloc EXCEPT
                  ![p].identity = [token_budget |-> tokenBudget,
                                   tokens_used |-> tokensUsed],
                  ![p].late = hist.exhausted,
                  ![p].below = (tokenBudget # NoBudget /\ tokensUsed < tokenBudget)]
    /\ bpc' = [bpc EXCEPT ![p] = IF bloc[p].exists THEN "b_check" ELSE "b_sadd"]
    /\ UNCHANGED <<tokenBudget, tokensUsed, hist, keyVars, warmVars, routeVars,
                   hpc, req, upState, upChunks, polled, client, body, chan,
                   txOpen, apc, agg, requestLogs, sideVars>>

\* Slow path: redis.sadd(REDIS_ACTIVE_KEYS_SET, &hash), then Ok(Some(..)).
AuthSadd(p) ==
    /\ bpc[p] = "b_sadd"
    /\ redisKeys' = redisKeys \cup {hash_key(TheKey)}
    /\ bpc' = [bpc EXCEPT ![p] = "b_check"]
    /\ UNCHANGED <<tokenBudget, tokensUsed, bloc, hist, keys, nextPlain, pc,
                   loc, revoked, halted, warmVars, routeVars, hpc, req, upState,
                   upChunks, polled, client, body, chan, txOpen, apc, agg,
                   requestLogs, sideVars>>

\* A budget check that lets every request through (not the code).
BudgetCheckOpen(p) ==
    /\ bpc[p] = "b_check"
    /\ bpc' = [bpc EXCEPT ![p] = "b_forward"]
    /\ UNCHANGED <<tokenBudget, tokensUsed, bloc, hist, keyVars, warmVars,
                   routeVars, hpc, req, upState, upChunks, polled, client,
                   body, chan, txOpen, apc, agg, requestLogs, sideVars>>

\* chat_completions with a well-formed body: the budget check on the
\* identity the middleware attached.
BudgetCheck(p) ==
    /\ bpc[p] = "b_check"
    /\ IF BudgetExhausted(bloc[p].identity)
       THEN /\ bloc' = [bloc EXCEPT ![p].status = 429]
            /\ bpc' = [bpc EXCEPT ![p] = "done"]
       ELSE /\ bpc' = [bpc EXCEPT ![p] = "b_forward"]
            /\ UNCHANGED bloc
    /\ UNCHANGED <<tokenBudget, tokensUsed, hist, keyVars, warmVars, routeVars,
                   hpc, req, upState, upChunks, polled, client, body, chan,
                   txOpen, apc, agg, requestLogs, sideVars>>

\* The request is forwarded and answered; the logging task has parsed the
\* response's usage.total_tokens and inserted the log row.
Forward(p) ==
    /\ bpc[p] = "b_forward"
    /\ \E c \in ChunkVals :
         /\ bloc' = [bloc EXCEPT ![p].cost = UsageOf(c), ![p].status = 200]
         /\ bpc' = [bpc EXCEPT ![p] =
                       IF ShouldIncrement(UsageOf(c)) THEN "b_commit" ELSE "done"]
    /\ UNCHANGED <<tokenBudget, tokensUsed, hist, keyVars, warmVars, routeVars,
                   hpc, req, upState, upChunks, polled, client, body, chan,
                   txOpen, apc, agg, requestLogs, sideVars>>

\* What a usage commit or a budget update leaves in the history.
Committed(h, p, used) ==
    [h EXCEPT !.charged = @ + bloc[p].cost,
              !.admitted = IF bloc[p].below THEN @ + bloc[p].cost ELSE @,
              !.exhausted = (tokenBudget # NoBudget /\ used >= tokenBudget)]

\* A commit that writes back the authenticated snapshot plus the delta (not
\* the code).
CommitReadModifyWrite(p) ==
    /\ bpc[p] = "b_commit"
    /\ tokensUsed' = bloc[p].identity.tokens_used + bloc[p].cost
    /\ hist' = Committed(hist, p, tokensUsed')
    /\ bpc' = [bpc EXCEPT ![p] = "done"]
    /\ UNCHANGED <<tokenBudget, bloc, keyVars, warmVars, routeVars,
                   hpc, req, upState, upChunks, polled, client, body, chan,
                   txOpen, apc, agg, requestLogs, sideVars>>

\* increment_tokens_used: UPDATE user_keys SET tokens_used = tokens_used + $1
Commit(p) ==
    /\ bpc[p] = "b_commit"
    /\ tokensUsed' = tokensUsed + bloc[p].cost
    /\ hist' = Committed(hist, p, tokensUsed')
    /\ bpc' = [bpc EXCEPT ![p] = "done"]
    /\ UNCHANGED <<tokenBudget, bloc, keyVars, warmVars, routeVars,
                   hpc, req, upState, upChunks, polled, client, body, chan,
                   txOpen, apc, agg, requestLogs, sideVars>>

\* The request is over; the task serves the next one.
FinishRequest(p) ==
    /\ bpc[p] = "done"
    /\ bpc' = [bpc EXCEPT ![p] = "idle"]
    /\ bloc' = [bloc EXCEPT ![p] = NoBLoc]
    /\ UNCHANGED <<tokenBudget, tokensUsed, hist, keyVars, warmVars, routeVars,
                   hpc, req, upState, upChunks, polled, client, body, chan,
                   txOpen, apc, agg, requestLogs, sideVars>>

\* update_key_budget: UPDATE user_keys SET token_budget = $1 [, tokens_used
\* = 0] WHERE id = $2
UpdateKeyBudget ==
    /\ hist.updates < MaxUpdates
    /\ \E b \in Budgets, reset_usage \in BOOLEAN :
         /\ tokenBudget' = b
         /\ tokensUsed' = IF reset_usage THEN 0 ELSE tokensUsed
         /\ hist' = [hist EXCEPT !.updates = @ + 1, !.changed = TRUE,
                                 !.reset = (@ \/ reset_usage),
                                 !.last_reset = reset_usage,
                                 !.exhausted = (b # NoBudget /\ tokensUsed' >= b)]
    /\ UNCHANGED <<bpc, bloc, keyVars, warmVars, routeVars,
                   hpc, req, upState, upChunks, polled, client, body, chan,
                   txOpen, apc, agg, requestLogs, sideVars>>

\* ------------------------------------- chat_completions: the upstream call
\* One request followed from its arrival to its log row, with the body, the
\* headers and the route it is forwarded with.
MaxRest == 2
MaxHeaderVal == 1

\* What the body carries besides "model": one value stands for all its
\* other fields.
RestVals == 1..MaxRest

\* A header value; NoHeader for a header the request does not carry.
NoHeader == 0
HeaderVals == NoHeader..MaxHeaderVal

\* providers.kind
Kinds == {"openrouter", "openai", "dashscope"}

\* models.provider_model_name is nullable.
NoOverride == 0

NoUpstreamReq == [model |-> 0, rest |-> 0, authorization |-> << >>,
                  referer |-> NoHeader, title |-> NoHeader,
                  organization |-> NoHeader]
NoFwd == [identity |-> NoIdentity, model |-> 0, rest |-> 0, is_stream |-> FALSE,
          referer |-> NoHeader, title |-> NoHeader, organization |-> NoHeader,
          override |-> NoOverride, provider_model_name |-> 0,
          provider_kind |-> "none", api_key |-> 0, up |-> NoUpstreamReq,
          resolved |-> "unresolved", failure |-> "none", calls |-> 0,
          status |-> 0,
          msg |-> << >>, logs |-> << >>,
          auth |-> "none", key_id |-> NoId, usage |-> NoUsage,
          used |-> [i \in KeyIds |-> 0], log_calls |-> 0, incr_calls |-> 0]

\* A route that always carries the requested name (not the code).
ProviderModelNameIgnoresOverride(model_name, override) == model_name

\* r.provider_model_name.unwrap_or_else(|| r.model_name.clone()), the same
\* in cache_model_route, warm_up_model_routes and resolve_model_route.
ProviderModelName(model_name, override) ==
    IF override = NoOverride THEN model_name ELSE override

\* if route.provider_model_name != model_name { body_json["model"] = .. }
\* on the parsed body; serde_json::to_vec writes the other fields back.
RewriteBody(f) ==
    [model |-> IF f.provider_model_name # f.model
               THEN f.provider_model_name ELSE f.model,
     rest |-> f.rest]

\* The kind-specific headers copied for every kind (not the code).
PassHeadersAnyKind(f) ==
    [referer |-> f.referer, title |-> f.title, organization |-> f.organization]

\* match route.provider_kind.as_str() { "openrouter" => .., _ => .. }
PassHeaders(f) ==
    IF f.provider_kind = "openrouter"
    THEN [referer |-> f.referer, title |-> f.title, organization |-> NoHeader]
    ELSE [referer |-> NoHeader, title |-> NoHeader,
          organization |-> f.organization]

\* .post(url).header(AUTHORIZATION, "Bearer {route.api_key}").body(..) and
\* the provider-specific headers.
UpstreamRequest(f) ==
    [model |-> RewriteBody(f).model, rest |-> RewriteBody(f).rest,
     authorization |-> <<"provider", f.api_key>>,
     referer |-> PassHeaders(f).referer, title |-> PassHeaders(f).title,
     organization |-> PassHeaders(f).organization]

\* The handler returns `Err(response)`.
FwdReject(f, code, msg) ==
    /\ fwd' = [f EXCEPT !.status = code, !.msg = msg]
    /\ fpc' = "returned"

\* Statuses an upstream answers with; 429 is one the gateway also makes.
FwdStatuses == UpStatuses \cup {429}

\* user_key_auth that lets a request with an unknown key through to the
\* handler (not the code).
FwdAuthAdmitsInvalid ==
    /\ fpc = "idle"
    /\ \E bearer \in BOOLEAN, res \in {"error", "invalid", "valid"},
          id \in KeyIds, identity \in Identities :
         IF ~bearer
         THEN FwdReject([NoFwd EXCEPT !.auth = "missing"], 401,
                        <<"missing_authorization">>)
         ELSE IF res = "error"
         THEN FwdReject([NoFwd EXCEPT !.auth = res], AuthResponse(res),
                        <<"auth", res>>)
         ELSE /\ fwd' = [NoFwd EXCEPT !.auth = res, !.key_id = id,
                                      !.identity = identity]
              /\ fpc' = "parse"
    /\ UNCHANGED <<keyVars, warmVars, routeVars, proxyVars, budgetVars,
                   sweepVars, parseVars>>

\* user_key_auth: no bearer token -> 401; validate_key gives Ok(None) ->
\* 401, Err -> 500, Ok(Some(v)) -> the handler runs with v as KeyIdentity.
FwdAuth ==
    /\ fpc = "idle"
    /\ \E bearer \in BOOLEAN, res \in {"error", "invalid", "valid"},
          id \in KeyIds, identity \in Identities :
         IF ~bearer
         THEN FwdReject([NoFwd EXCEPT !.auth = "missing"], 401,
                        <<"missing_authorization">>)
         ELSE IF AuthResponse(res) # 0
         THEN FwdReject([NoFwd EXCEPT !.auth = res], AuthResponse(res),
                        <<"auth", res>>)
         ELSE /\ fwd' = [NoFwd EXCEPT !.auth = res, !.key_id = id,
                                      !.identity = identity]
              /\ fpc' = "parse"
    /\ UNCHANGED <<keyVars, warmVars, routeVars, proxyVars, budgetVars,
                   sweepVars, parseVars>>

\* chat_completions up to the budget check: a body that is not JSON or has
\* no "model" string is answered 400, an exhausted identity 429.
FwdStart ==
    /\ fpc = "parse"
    /\ \E parsed \in {"invalid_json", "no_model", "ok"},
          m \in ModelNames, rest \in RestVals,
          st \in BOOLEAN, h \in [{"referer", "title", "organization"} -> HeaderVals] :
         LET f == [fwd EXCEPT !.model = m,
                              !.rest = rest, !.is_stream = st,
                              !.referer = h["referer"], !.title = h["title"],
                              !.organization = h["organization"]] IN
         IF parsed # "ok"
         THEN FwdReject(fwd, 400, <<parsed>>)
         ELSE IF BudgetExhausted(fwd.identity)
         THEN FwdReject(f, 429, <<"budget", fwd.identity.tokens_used,
                                  fwd.identity.token_budget>>)
         ELSE fwd' = f /\ fpc' = "resolve"
    /\ UNCHANGED <<keyVars, warmVars, routeVars, proxyVars, budgetVars,
                   sweepVars, parseVars>>

\* What resolve_model_route returns: Err when the HGET or the SELECT fails,
\* Ok(None) when the cache misses and the store has no active row, else
\* Ok(Some(route)).
ResolveResult(hget, select) ==
    IF hget = "err" \/ (hget = "miss" /\ select = "err") THEN "err"
    ELSE IF hget = "miss" /\ select = "none" THEN "none"
    ELSE "some"

\* The cache or store operation that failed during the call, if any; the
\* HSET of the back-fill runs only after the store returned a row.
ResolveFailure(hget, select, hset) ==
    IF hget = "err" THEN "hget"
    ELSE IF hget = "miss" /\ select = "err" THEN "select"
    ELSE IF hget = "miss" /\ select = "row" /\ hset = "err" THEN "hset"
    ELSE "none"

\* A missing route answered by forwarding the request under its own name
\* (not the code).
FwdResolveForwardsUnknown ==
    /\ fpc = "resolve"
    /\ \E hget \in {"err", "hit", "miss"}, select \in {"err", "none", "row"},
          hset \in {"ok", "err"}, o \in {NoOverride} \cup ModelNames,
          k \in Kinds, key \in CfgVals :
         LET res == ResolveResult(hget, select)
             r == [fwd EXCEPT !.resolved = res,
                              !.failure = ResolveFailure(hget, select, hset)]
             ov == IF res = "none" THEN NoOverride ELSE o
             f == [r EXCEPT !.override = ov,
                            !.provider_model_name =
                                ProviderModelName(fwd.model, ov),
                            !.provider_kind = k, !.api_key = key] IN
         IF res = "err"
         THEN FwdReject(r, 500, <<"internal">>)
         ELSE /\ fwd' = [f EXCEPT !.up = UpstreamRequest(f)]
              /\ fpc' = "send"
    /\ UNCHANGED <<keyVars, warmVars, routeVars, proxyVars, budgetVars,
                   sweepVars, parseVars>>

\* resolve_model_route(&model_name, ..).await: Err -> 500, Ok(None) -> 400,
\* Ok(Some(route)) -> the upstream request is built from the route, whose
\* provider_model_name comes from the model row it was made from. A failed
\* back-fill is dropped (`let _: Result<(), _>`).
FwdResolve ==
    /\ fpc = "resolve"
    /\ \E hget \in {"err", "hit", "miss"}, select \in {"err", "none", "row"},
          hset \in {"ok", "err"}, o \in {NoOverride} \cup ModelNames,
          k \in Kinds, key \in CfgVals :
         LET res == ResolveResult(hget, select)
             r == [fwd EXCEPT !.resolved = res,
                              !.failure = ResolveFailure(hget, select, hset)]
             f == [r EXCEPT !.override = o,
                            !.provider_model_name =
                                ProviderModelName(fwd.model, o),
                            !.provider_kind = k, !.api_key = key] IN
         IF res = "err"
         THEN FwdReject(r, 500, <<"internal">>)
         ELSE IF res = "none"
         THEN FwdReject(r, 400, <<"not_configured", fwd.model>>)
         ELSE /\ fwd' = [f EXCEPT !.up = UpstreamRequest(f)]
              /\ fpc' = "send"
    /\ UNCHANGED <<keyVars, warmVars, routeVars, proxyVars, budgetVars,
                   sweepVars, parseVars>>

\* A send that is tried again after it fails (not the code).
FwdSendRetries ==
    /\ fpc = "send"
    /\ fwd.calls < 2
    /\ \/ /\ fwd' = [fwd EXCEPT !.calls = @ + 1]
          /\ UNCHANGED fpc
       \/ \E st \in FwdStatuses :
            /\ fwd' = [fwd EXCEPT !.calls = @ + 1, !.status = from_u16(st)]
            /\ fpc' = IF fwd.is_stream THEN "log" ELSE "read_body"
    /\ UNCHANGED <<keyVars, warmVars, routeVars, proxyVars, budgetVars,
                   sweepVars, parseVars>>

\* upstream_req.send().await, called once: Err -> 502; any status, 2xx or
\* not, goes on to the response.
FwdSend ==
    /\ fpc = "send"
    /\ \/ FwdReject([fwd EXCEPT !.calls = @ + 1], 502, <<"upstream">>)
       \/ \E st \in FwdStatuses :
            /\ fwd' = [fwd EXCEPT !.calls = @ + 1, !.status = from_u16(st)]
            /\ fpc' = IF fwd.is_stream THEN "log" ELSE "read_body"
    /\ UNCHANGED <<keyVars, warmVars, routeVars, proxyVars, budgetVars,
                   sweepVars, parseVars>>

\* upstream_resp.bytes().await: Err -> 502, no log row.
FwdReadBody ==
    /\ fpc = "read_body"
    /\ \/ FwdReject(fwd, 502, <<"read">>)
       \/ fpc' = "log" /\ UNCHANGED fwd
    /\ UNCHANGED <<keyVars, warmVars, routeVars, proxyVars, budgetVars,
                   sweepVars, parseVars>>

\* insert_log(NewRequestLog { model_requested: model_name, model_sent, .. })
\* by the spawned task, with the total_tokens read from the response; the
\* response has been returned.  An Err is logged and dropped.
FwdLog ==
    /\ fpc = "log"
    /\ \E ok \in BOOLEAN, total_tokens \in {NoUsage} \cup 0..MaxUsed :
         /\ fwd' = [fwd EXCEPT
                       !.logs = IF ok
                                THEN Append(@,
                                       [model_requested |-> fwd.model,
                                        model_sent |-> fwd.provider_model_name])
                                ELSE @,
                       !.log_calls = @ + 1,
                       !.usage = total_tokens]
         /\ fpc' = IF total_tokens # NoUsage /\ total_tokens > 0
                   THEN "incr" ELSE "returned"
    /\ UNCHANGED <<keyVars, warmVars, routeVars, proxyVars, budgetVars,
                   sweepVars, parseVars>>

\* An increment that is charged to every key (not the code).
FwdIncrementAllKeys ==
    /\ fpc = "incr"
    /\ \E ok \in BOOLEAN :
         fwd' = [fwd EXCEPT
                    !.used = IF ok THEN [i \in KeyIds |-> @[i] + fwd.usage]
                             ELSE @,
                    !.incr_calls = @ + 1]
    /\ fpc' = "returned"
    /\ UNCHANGED <<keyVars, warmVars, routeVars, proxyVars, budgetVars,
                   sweepVars, parseVars>>

\* if let Some(tokens) = total_tokens { if tokens > 0 {
\* increment_tokens_used(key_identity.key_id, tokens as i64, &db) } }; an
\* Err is logged and dropped.
FwdIncrement ==
    /\ fpc = "incr"
    /\ \E ok \in BOOLEAN :
         fwd' = [fwd EXCEPT
                    !.used = IF ok
                             THEN [@ EXCEPT ![fwd.key_id] = @ + fwd.usage]
                             ELSE @,
                    !.incr_calls = @ + 1]
    /\ fpc' = "returned"
    /\ UNCHANGED <<keyVars, warmVars, routeVars, proxyVars, budgetVars,
                   sweepVars, parseVars>>

\* ------------------------------------------------- log retention task
\* The clock counts hours and stops at MaxNow; a day is DayLen hours.
MaxNow == 6
MaxRows == 2
DayLen == 2
MaxRuns == 2

\* config.log_retention_days is a u32, of the width that goes with I32Max.
U32Max == 2 * (I32Max + 1) - 1
RetentionDays == 0..U32Max

NoSweep == [retention_days |-> 0, runs |-> 0, sleeps |-> 0, result |-> "none",
            before |-> << >>, after |-> << >>, at |-> 0, count |-> 0,
            deleted |-> FALSE,
            failed |-> FALSE]

\* NOW() - make_interval(days => $1) with $1 bound to `retention_days as i32`
Cutoff(retention_days) == now - as_i32(retention_days) * DayLen

\* The cut-off taken from the u32 without the cast (not the code).
CutoffUncast(retention_days) == now - retention_days * DayLen

\* created_at >= cut-off: the rows DELETE .. WHERE created_at < .. leaves.
Kept(retention_days) ==
    LET keep(t) == ~(t < Cutoff(retention_days)) IN SelectSeq(logTimes, keep)

\* insert_log: a row with created_at = NOW().
InsertLogRow ==
    /\ Len(logTimes) < MaxRows
    /\ logTimes' = Append(logTimes, now)
    /\ UNCHANGED <<spc, sweep, now, keyVars, warmVars, routeVars, proxyVars,
                   budgetVars, fwdVars, parseVars>>

\* A loop that ends when a cleanup fails (not the code).
SweepCleanupStopsOnError ==
    /\ spc = "cleanup"
    /\ \/ /\ logTimes' = Kept(sweep.retention_days)
          /\ sweep' = [sweep EXCEPT
                         !.runs = IF @ < MaxRuns THEN @ + 1 ELSE @,
                         !.result = "ok", !.before = logTimes,
                         !.after = logTimes', !.at = now,
                         !.count = Len(logTimes) - Len(logTimes'),
                         !.deleted = (@ \/ logTimes' # logTimes)]
          /\ spc' = "sleep"
       \/ /\ sweep' = [sweep EXCEPT
                         !.runs = IF @ < MaxRuns THEN @ + 1 ELSE @,
                         !.result = "err", !.failed = TRUE]
          /\ spc' = "stopped"
          /\ UNCHANGED logTimes
    /\ UNCHANGED <<now, keyVars, warmVars, routeVars, proxyVars, budgetVars,
                   fwdVars, parseVars>>

\* cleanup_old_logs(&retention_db, retention_days).await inside the loop:
\* Ok(n) with the rows deleted, or Err (logged) with no row touched; either
\* way the task goes to sleep.
SweepCleanup ==
    /\ spc = "cleanup"
    /\ \/ /\ logTimes' = Kept(sweep.retention_days)
          /\ sweep' = [sweep EXCEPT
                         !.runs = IF @ < MaxRuns THEN @ + 1 ELSE @,
                         !.result = "ok", !.before = logTimes,
                         !.after = logTimes', !.at = now,
                         !.count = Len(logTimes) - Len(logTimes'),
                         !.deleted = (@ \/ logTimes' # logTimes)]
       \/ /\ sweep' = [sweep EXCEPT
                         !.runs = IF @ < MaxRuns THEN @ + 1 ELSE @,
                         !.result = "err", !.failed = TRUE]
          /\ UNCHANGED logTimes
    /\ spc' = "sleep"
    /\ UNCHANGED <<now, keyVars, warmVars, routeVars, proxyVars, budgetVars,
                   fwdVars, parseVars>>

\* tokio::time::sleep(Duration::from_secs(3600)).await, then the next turn
\* of the loop.
SweepSleep ==
    /\ spc = "sleep"
    /\ now' = IF now < MaxNow THEN now + 1 ELSE now
    /\ sweep' = [sweep EXCEPT !.sleeps = IF @ < MaxRuns THEN @ + 1 ELSE @]
    /\ spc' = "cleanup"
    /\ UNCHANGED <<logTimes, keyVars, warmVars, routeVars, proxyVars,
                   budgetVars, fwdVars, parseVars>>

\* Time passes with no retention task running (log_retention_days = 0).
ClockTick ==
    /\ spc = "off"
    /\ now < MaxNow
    /\ now' = now + 1
    /\ UNCHANGED <<spc, sweep, logTimes, keyVars, warmVars, routeVars,
                   proxyVars, budgetVars, fwdVars, parseVars>>

\* ----------------------------------------- parse_sse_usage_and_body
\* The buffer as the lines text.lines() yields, each trimmed.
MaxLines == 3
MaxTokens == 2

\* A field of a usage object: NoUsage when it is missing or as_i64() gives
\* None, else the integer it holds.
FieldVals == {NoUsage} \cup 1..MaxTokens

\* The "usage" member of an event: missing, null, or an object.
UsageVals ==
    {[kind |-> "missing", prompt_tokens |-> NoUsage,
      completion_tokens |-> NoUsage, total_tokens |-> NoUsage],
     [kind |-> "null", prompt_tokens |-> NoUsage,
      completion_tokens |-> NoUsage, total_tokens |-> NoUsage]}
    \cup [kind : {"object"}, prompt_tokens : FieldVals,
          completion_tokens : FieldVals, total_tokens : FieldVals]

NoEvent == [kind |-> "missing", prompt_tokens |-> NoUsage,
            completion_tokens |-> NoUsage, total_tokens |-> NoUsage]

\* A line: "other" has no "data:" prefix, "done" is data: [DONE], "bad" is
\* data: followed by text that is not JSON, "json" is data: followed by JSON.
Lines ==
    [kind : {"other", "done", "bad"}, usage : {NoEvent}]
    \cup [kind : {"json"}, usage : UsageVals]

NoParsed == [prompt_tokens |-> NoUsage, completion_tokens |-> NoUsage,
             total_tokens |-> NoUsage, all_chunks |-> << >>]
NoSse == [buffer |-> << >>, out |-> NoParsed, some |-> FALSE]

\* json.get("usage") is Some for an object and for null; usage.get(..) on
\* null is None.
Field(old, usage, v) ==
    IF usage.kind = "object" /\ v # NoUsage THEN as_i32(v) ELSE old

\* A body of the loop that forgets the usage read so far when a line does
\* not parse (not the code).
scan_line_resets(acc, line) ==
    IF line.kind = "bad" THEN [NoParsed EXCEPT !.all_chunks = acc.all_chunks]
    ELSE IF line.kind # "json" THEN acc
    ELSE [prompt_tokens |->
              Field(acc.prompt_tokens, line.usage, line.usage.prompt_tokens),
          completion_tokens |->
              Field(acc.completion_tokens, line.usage,
                    line.usage.completion_tokens),
          total_tokens |->
              Field(acc.total_tokens, line.usage, line.usage.total_tokens),
          all_chunks |-> Append(acc.all_chunks, line.usage)]

\* The body of `for line in text.lines()`: a line without the prefix, a
\* [DONE] line and a line that does not parse change nothing; a parsed event
\* overwrites each counter its usage object holds and is pushed.
scan_line(acc, line) ==
    IF line.kind # "json" THEN acc
    ELSE [prompt_tokens |->
              Field(acc.prompt_tokens, line.usage, line.usage.prompt_tokens),
          completion_tokens |->
              Field(acc.completion_tokens, line.usage,
                    line.usage.completion_tokens),
          total_tokens |->
              Field(acc.total_tokens, line.usage, line.usage.total_tokens),
          all_chunks |-> Append(acc.all_chunks, line.usage)]

\* The loop over the lines, first to last.
RECURSIVE scan_lines(_)
scan_lines(buffer) ==
    IF buffer = << >> THEN NoParsed
    ELSE scan_line(scan_lines(SubSeq(buffer, 1, Len(buffer) - 1)),
                   buffer[Len(buffer)])

\* The call: the three counters and Some(array) unless the array is empty.
ParseCall ==
    /\ ppc = "idle"
    /\ sse' = [sse EXCEPT !.out = scan_lines(sse.buffer),
                          !.some = (scan_lines(sse.buffer).all_chunks # << >>)]
    /\ ppc' = "done"
    /\ UNCHANGED <<keyVars, warmVars, routeVars, proxyVars, budgetVars,
                   fwdVars, sweepVars>>

\* ------------------------------------------------------ specification
\* No request on the key under watch.
BudgetIdle ==
    /\ tokenBudget = NoBudget
    /\ bpc = [p \in Procs |-> "idle"]
    /\ bloc = [p \in Procs |-> NoBLoc]
    /\ hist = NoHist

FwdIdle == fpc = "idle" /\ fwd = NoFwd

SweepIdle == spc = "off" /\ sweep = NoSweep /\ logTimes = << >> /\ now = 0

ParseIdle == ppc = "done" /\ sse = NoSse

SideIdle == FwdIdle /\ SweepIdle /\ ParseIdle

\* No key exists and no key operation or warm-up is running.
KeysIdle ==
    /\ keys = [i \in KeyIds |-> NoRow]
    /\ redisKeys = {}
    /\ nextPlain = 0
    /\ pc = [p \in Procs |-> "idle"]
    /\ loc = [p \in Procs |-> NoLoc]
    /\ revoked = {}
    /\ halted = {}
    /\ wpc = "done"
    /\ whashes = {}

ProxyIdle ==
    /\ hpc = "idle"
    /\ req = NoReq
    /\ upState = "none"
    /\ upChunks = << >>
    /\ polled = 0
    /\ client = << >>
    /\ body = "none"
    /\ chan = << >>
    /\ txOpen = FALSE
    /\ apc = "none"
    /\ agg = NoAgg
    /\ requestLogs = << >>

\* The route plane before any provider or model exists.
RoutesEmpty ==
    /\ providers = [i \in ProvIds |-> NoProvider]
    /\ models = [i \in ModelIds |-> NoModel]
    /\ redisRoutes = [n \in ModelNames |-> NoEntry]
    /\ rpc = [p \in Procs |-> "idle"]
    /\ rloc = [p \in Procs |-> NoRLoc]
    /\ deletedNames = {}
    /\ nextProv = 0
    /\ nextModel = 0
    /\ serial = TRUE

InitKeys ==
    /\ keys = [i \in KeyIds |-> NoRow]
    /\ redisKeys = {}
    /\ nextPlain = 0
    /\ pc = [p \in Procs |-> "idle"]
    /\ loc = [p \in Procs |-> NoLoc]
    /\ revoked = {}
    /\ halted = {}
    /\ wpc = "done"
    /\ whashes = {}
    /\ RoutesEmpty
    /\ ProxyIdle
    /\ BudgetIdle
    /\ tokensUsed = 0
    /\ SideIdle

\* One step of a call to the key service made by task p.
KeyCall(p) ==
    \/ CreateInsert(p)
    \/ CreateSadd(p)
    \/ ValidateSismember(p)
    \/ ValidateFast(p)
    \/ ValidateSlow(p)
    \/ ValidateSadd(p)
    \/ RotateSelect(p)
    \/ RotateSrem(p)
    \/ RotateUpdate(p)
    \/ RotateSadd(p)
    \/ DeleteSelect(p)
    \/ DeleteUpdate(p)
    \/ DeleteSrem(p)
    \/ Return(p)

NextKeys == \E p \in Procs : KeyCall(p)

SpecKeys == InitKeys /\ [][NextKeys]_vars

\* Every operation on user_keys and on the set of active hashes: the calls
\* of the key service made one after the other by a task, and, between
\* its steps, the two budget statements and the warm-up of a gateway
\* process that starts on the same Postgres and Redis.
NextKeyOps ==
    \/ KeyCall(1)
    \/ KeyBudgetUpdate
    \/ KeyUsageIncrement
    \/ WarmStart
    \/ WarmSelect
    \/ WarmDel
    \/ WarmSadd

\* Process start (main.rs): the store holds an active key left by an
\* earlier run, whose plaintext no caller presents during this one, and
\* the cache may or may not hold its hash.
SeededKey ==
    [present |-> TRUE, key_hash |-> hash_key(MaxPlain + 1), is_active |-> TRUE,
     token_budget |-> NoKeyBudget, tokens_used |-> 0]

InitKeyOps ==
    /\ keys = [i \in KeyIds |-> IF i = MaxKeys THEN SeededKey ELSE NoRow]
    /\ redisKeys \in SUBSET {SeededKey.key_hash}
    /\ nextPlain = 0
    /\ pc = [p \in Procs |-> "idle"]
    /\ loc = [p \in Procs |-> NoLoc]
    /\ revoked = {}
    /\ halted = {}
    /\ wpc = "done"
    /\ whashes = {}
    /\ RoutesEmpty
    /\ ProxyIdle
    /\ BudgetIdle
    /\ tokensUsed = 0
    /\ SideIdle

SpecKeyOps == InitKeyOps /\ [][NextKeyOps]_vars

\* Process start (main.rs): Postgres and Redis hold whatever earlier runs
\* left; key_hash is UNIQUE in user_keys.
KeyTables ==
    {t \in [KeyIds -> [present : BOOLEAN, key_hash : Hashes \cup {NoHash},
                       is_active : BOOLEAN, token_budget : {NoKeyBudget},
                       tokens_used : {0}]] :
        /\ \A i \in KeyIds :
             IF t[i].present THEN t[i].key_hash # NoHash ELSE t[i] = NoRow
        /\ \A i, j \in KeyIds :
             (t[i].present /\ t[j].present /\ i # j)
                => t[i].key_hash # t[j].key_hash}

InitWarm ==
    /\ keys \in KeyTables
    /\ redisKeys \in SUBSET Hashes
    /\ nextPlain = MaxPlain
    /\ pc = [p \in Procs |-> "idle"]
    /\ loc = [p \in Procs |-> NoLoc]
    /\ revoked = {}
    /\ halted = {}
    /\ wpc = "w_select"
    /\ whashes = {}
    /\ RoutesEmpty
    /\ ProxyIdle
    /\ BudgetIdle
    /\ tokensUsed = 0
    /\ SideIdle

NextWarm == WarmSelect \/ WarmDel \/ WarmSadd

SpecWarm == InitWarm /\ [][NextWarm]_vars

InitRoutes ==
    /\ RoutesEmpty
    /\ keys = [i \in KeyIds |-> NoRow]
    /\ redisKeys = {}
    /\ nextPlain = 0
    /\ pc = [p \in Procs |-> "idle"]
    /\ loc = [p \in Procs |-> NoLoc]
    /\ revoked = {}
    /\ halted = {}
    /\ wpc = "done"
    /\ whashes = {}
    /\ ProxyIdle
    /\ BudgetIdle
    /\ tokensUsed = 0
    /\ SideIdle

RouteStep(p) ==
    \/ CreateProvider(p)
    \/ ResolveHget(p)
    \/ ResolveSelect(p)
    \/ ResolveHset(p)
    \/ CreateModelSelect(p)
    \/ CreateModelInsert(p)
    \/ CreateModelHset(p)
    \/ DeleteModelSelect(p)
    \/ DeleteModelDelete(p)
    \/ DeleteModelHdel(p)
    \/ UpdateModelSelect(p)
    \/ UpdateModelUpdate(p)
    \/ UpdateModelHdel(p)
    \/ UpdateProviderSelect(p)
    \/ UpdateProviderUpdate(p)
    \/ DeleteProvider(p)
    \/ WarmRoutesSelect(p)
    \/ WarmRoutesDel(p)
    \/ WarmRoutesHset(p)
    \/ ReturnRoute(p)

\* Requests served concurrently: any task may take its next step.
NextRoutes == \E p \in Procs : RouteStep(p)

SpecRoutes == InitRoutes /\ [][NextRoutes]_vars

InitProxy ==
    /\ ProxyIdle
    /\ BudgetIdle
    /\ tokensUsed = 0
    /\ RoutesEmpty
    /\ keys = [i \in KeyIds |-> NoRow]
    /\ redisKeys = {}
    /\ nextPlain = 0
    /\ pc = [p \in Procs |-> "idle"]
    /\ loc = [p \in Procs |-> NoLoc]
    /\ revoked = {}
    /\ halted = {}
    /\ wpc = "done"
    /\ whashes = {}
    /\ SideIdle

NextProxy ==
    \/ HandlerStart
    \/ HandlerResolve
    \/ HandlerSend
    \/ HandlerReadBody
    \/ UpstreamChunk
    \/ UpstreamEof
    \/ UpstreamErr
    \/ PollNext
    \/ BodyDrop
    \/ ClientDisconnect
    \/ AggRecv
    \/ AggInsert
    \/ AggIncrement
    \/ LogInsert
    \/ LogIncrement

SpecProxy == InitProxy /\ [][NextProxy]_vars

\* The runtime keeps running a spawned task that can take a step, and the
\* server drops a response body that has ended or failed.
SpecProxyFair ==
    /\ InitProxy
    /\ [][NextProxy]_vars
    /\ WF_vars(AggRecv)
    /\ WF_vars(AggInsert)
    /\ WF_vars(AggIncrement)
    /\ WF_vars(LogInsert)
    /\ WF_vars(LogIncrement)
    /\ WF_vars(BodyDrop)

\* One key, created with some budget and no usage, cached or not.
InitBudget ==
    /\ tokenBudget \in Budgets
    /\ tokensUsed = 0
    /\ bpc = [p \in Procs |-> "idle"]
    /\ bloc = [p \in Procs |-> NoBLoc]
    /\ hist = NoHist
    /\ keys = [i \in KeyIds |->
                 IF i = TheKey
                 THEN [present |-> TRUE, key_hash |-> hash_key(TheKey),
                       is_active |-> TRUE]
                 ELSE NoRow]
    /\ redisKeys \in SUBSET {hash_key(TheKey)}
    /\ nextPlain = TheKey
    /\ pc = [p \in Procs |-> "idle"]
    /\ loc = [p \in Procs |-> NoLoc]
    /\ revoked = {}
    /\ halted = {}
    /\ wpc = "done"
    /\ whashes = {}
    /\ RoutesEmpty
    /\ hpc = "idle"
    /\ req = NoReq
    /\ upState = "none"
    /\ upChunks = << >>
    /\ polled = 0
    /\ client = << >>
    /\ body = "none"
    /\ chan = << >>
    /\ txOpen = FALSE
    /\ apc = "none"
    /\ agg = NoAgg
    /\ requestLogs = << >>
    /\ SideIdle

NextBudget ==
    \/ \E p \in Procs :
         \/ AuthSismember(p)
         \/ AuthSelect(p)
         \/ AuthSadd(p)
         \/ BudgetCheck(p)
         \/ Forward(p)
         \/ Commit(p)
         \/ FinishRequest(p)
    \/ UpdateKeyBudget

SpecBudget == InitBudget /\ [][NextBudget]_vars

\* One request on an otherwise idle gateway.
InitForward ==
    /\ FwdIdle
    /\ SweepIdle
    /\ ParseIdle
    /\ KeysIdle
    /\ RoutesEmpty
    /\ ProxyIdle
    /\ BudgetIdle
    /\ tokensUsed = 0

NextForward ==
    \/ FwdAuth
    \/ FwdStart
    \/ FwdResolve
    \/ FwdSend
    \/ FwdReadBody
    \/ FwdLog
    \/ FwdIncrement

SpecForward == InitForward /\ [][NextForward]_vars

\* Process start with some LOG_RETENTION_DAYS: main spawns the retention
\* task unless the value is 0.
InitSweep ==
    /\ \E d \in RetentionDays :
         /\ sweep = [NoSweep EXCEPT !.retention_days = d]
         /\ spc = IF d > 0 THEN "cleanup" ELSE "off"
    /\ logTimes = << >>
    /\ now = 0
    /\ FwdIdle
    /\ ParseIdle
    /\ KeysIdle
    /\ RoutesEmpty
    /\ ProxyIdle
    /\ BudgetIdle
    /\ tokensUsed = 0

NextSweep ==
    \/ InsertLogRow
    \/ SweepCleanup
    \/ SweepSleep
    \/ ClockTick

SpecSweep == InitSweep /\ [][NextSweep]_vars

\* The runtime keeps running the spawned task, and a sleep ends.
SpecSweepFair ==
    /\ InitSweep
    /\ [][NextSweep]_vars
    /\ WF_vars(SweepCleanup)
    /\ WF_vars(SweepSleep)

\* Any buffer of at most MaxLines lines is handed to the parser.
Buffers == UNION {[1..n -> Lines] : n \in 0..MaxLines}

InitParse ==
    /\ ppc = "idle"
    /\ \E b \in Buffers : sse = [NoSse EXCEPT !.buffer = b]
    /\ FwdIdle
    /\ SweepIdle
    /\ KeysIdle
    /\ RoutesEmpty
    /\ ProxyIdle
    /\ BudgetIdle
    /\ tokensUsed = 0

NextParse == ParseCall

SpecParse == InitParse /\ [][NextParse]_vars

\* ------------------------------------------------------------------ claims

\* C1: a validate_key call obtains a key identity exactly when, at its
\* SELECT, the store holds an active row with key_hash = SHA-256(p); this
\* holds on the cache-hit path as on the cache-miss path, and a call that
\* obtained no identity is answered 401 by user_key_auth.
C1_ValidateIffActiveRow ==
    [][\A p \in Procs :
          /\ (pc[p] \in {"v_fast", "v_slow"} /\ pc'[p] # pc[p]
                 /\ loc'[p].res # "error")
               => /\ (loc'[p].key_id # NoId) <=> (ActiveRowsByHash(loc[p].hash) # {})
                  /\ (loc'[p].key_id = NoId)
                       <=> (pc'[p] = "done" /\ AuthResponse(loc'[p].res) = 401)
          /\ (pc[p] = "v_sadd" /\ pc'[p] = "done")
               => AuthResponse(loc'[p].res) # 401
      ]_vars

\* C1 witness: a call found its hash in the cache, found no active row in
\* the store and was rejected.
C1_Witness ==
    \E p \in Procs :
        /\ pc[p] = "done" /\ loc[p].op = "validate"
        /\ loc[p].exists /\ loc[p].res = "invalid"

\* C2: after warm_up_redis has run, every hash in gateway:active_key_hashes
\* is the key_hash of an active row of the store.
C2_WarmSubset == (wpc = "done") => (redisKeys \subseteq ActiveHashes)

\* C3: a validate_key call that starts after delete_key or rotate_key has
\* returned success for a hash does not succeed for that hash.
C3_RevokedNeverValidates ==
    \A p \in Procs :
        (pc[p] = "done" /\ loc[p].op = "validate" /\ loc[p].late)
            => loc[p].res \in {"invalid", "error"}

\* C3 witness: such a late call has completed, and it had found the retired
\* hash in the cache.
C3_Witness ==
    \E p \in Procs :
        /\ pc[p] = "done" /\ loc[p].op = "validate"
        /\ loc[p].late /\ loc[p].exists

\* C4: with no operation in flight, every hash in the cache is the key_hash
\* of an active key of the store.
C4_QuiescentCacheSubset == Quiescent => (redisKeys \subseteq ActiveHashes)

\* The model row that carries a name, when one does.
ModelNamed(n) == {i \in ModelIds : models[i].present /\ models[i].name = n}

\* A resolve call has returned, and no admin operation was in flight at any
\* moment since it started.
ResolvedClean(p) ==
    rpc[p] = "done" /\ rloc[p].op = "resolve" /\ rloc[p].clean

\* C5: resolve_model_route(name) returns None whenever the model of that
\* name is inactive or its provider is inactive; stated for the runs in which
\* no two calls overlap, a model created on an inactive provider included.
C5_InactiveResolvesNone ==
    \A p \in Procs :
        (/\ serial
         /\ ResolvedClean(p)
         /\ \E i \in ModelNamed(rloc[p].name) :
               \/ ~models[i].is_active
               \/ ~providers[models[i].provider_id].is_active)
            => rloc[p].res = "none"

\* C6: a resolve call that runs after the provider updates have returned
\* yields, for an active model served by an active provider, that provider's
\* stored base_url, api_key and kind.
C6_ResolveSeesProviderUpdate ==
    \A p \in Procs :
        (/\ ResolvedClean(p)
         /\ rloc[p].res = "some"
         /\ providers[rloc[p].route.provider_id].is_active
         /\ \E i \in ModelNamed(rloc[p].name) :
               /\ models[i].is_active
               /\ models[i].provider_id = rloc[p].route.provider_id)
            => rloc[p].route.cfg = providers[rloc[p].route.provider_id].cfg

\* C7: a resolve call that starts after delete_model has returned success
\* for a name (not created again since) returns None.
C7_DeletedResolvesNone ==
    \A p \in Procs :
        (/\ ResolvedClean(p)
         /\ rloc[p].late
         /\ rloc[p].name \in deletedNames)
            => rloc[p].res = "none"

IsPrefix(s, t) == Len(s) <= Len(t) /\ s = SubSeq(t, 1, Len(s))

\* C8: for a streaming request the chunks yielded to the client are at every
\* moment a prefix of the chunks the upstream produced, in the same order and
\* unaltered; once poll_next has reported the end of a body the upstream
\* closed with EOF, the two sequences are equal.
C8_StreamPrefix ==
    /\ IsPrefix(client, upChunks)
    /\ (body = "ended" /\ upState = "eof") => client = upChunks

\* C8 witness: a body of two different chunks was served to its end.
C8_Witness ==
    /\ body = "ended" /\ upState = "eof"
    /\ Len(client) >= 2 /\ client[1] # client[2]

\* C9: the aggregator parses and logs at most once per streaming request,
\* and only once the upstream stream has terminated by EOF or by an error;
\* this is to hold when the client disconnects mid-stream as well.
C9_AggregatorAfterUpstreamEnd ==
    /\ agg.runs <= 1
    /\ (req.is_stream /\ agg.runs >= 1) => agg.at \in {"eof", "err"}

\* The request has been answered and no task spawned for it is still running.
RequestOver == hpc = "returned" /\ apc \in {"none", "done"} /\ body # "live"

\* C10: a request to POST /v1/chat/completions leaves exactly one row in
\* request_logs, whatever its outcome (400, 429 and 502 included).
C10_OneLogRowPerRequest ==
    /\ Len(requestLogs) <= 1
    /\ RequestOver => Len(requestLogs) = 1

\* C11: once the body of a streaming response has been polled to its end
\* (EOF or upstream error) or dropped (client disconnect), the aggregator's
\* receive loop terminates and the log row is inserted (unless the store
\* refuses the insert) from the chunks received so far, which are a prefix
\* of what the upstream produced.
C11_AggregatorTerminates ==
    (body \in {"ended", "errored", "dropped"})
        ~> (/\ apc \in {"incr", "done"}
            /\ agg.log_err
                  \/ /\ Len(requestLogs) = 1
                     /\ requestLogs[1].total_tokens =
                           parse_sse_usage_and_body(agg.buffer)
            /\ IsPrefix(agg.buffer, upChunks))

\* C11 witness: the client left after one of two chunks, and the aggregator
\* finished with that one chunk.
C11_Witness ==
    /\ apc = "done" /\ upState = "aborted"
    /\ Len(agg.buffer) = 1 /\ Len(upChunks) = 2

\* C12: when the upstream stream fails mid-response, poll_next yields an
\* error item to the client; from then on no chunk reaches the client or the
\* aggregator, the channel gets closed and the aggregator logs exactly the
\* chunks delivered before the error.
C12_UpstreamErrorSurfaces ==
    /\ [][/\ (body = "live" /\ body' # "live" /\ txOpen' /\ upState = "err")
                => (body' = "errored" /\ req'.err_item)
          /\ req.err_item
                => /\ client' = client
                   /\ agg'.buffer \o chan' = agg.buffer \o chan
         ]_vars
    /\ req.err_item
          ~> (/\ ~txOpen
              /\ apc \in {"incr", "done"}
              /\ agg.log_err \/ Len(requestLogs) = 1
              /\ agg.buffer = client
              /\ client = upChunks)

\* C12 witness: the error came after one chunk, and the aggregator logged
\* that chunk.
C12_Witness ==
    /\ req.err_item /\ upState = "err"
    /\ apc = "done" /\ Len(agg.buffer) = 1

C14_LateRequestsRejected ==
    \A p \in Procs :
        (bloc[p].late /\ bpc[p] \in {"b_forward", "b_commit", "done"})
            => (bloc[p].status = 429 /\ bpc[p] = "done")

\* C14 witness: such a request found its hash in the cache and was refused.
C14_Witness ==
    \E p \in Procs :
        /\ bpc[p] = "done" /\ bloc[p].late /\ bloc[p].exists
        /\ bloc[p].status = 429
        /\ bloc[p].identity.tokens_used > 0

\* The largest total one request can commit.
MaxCost == I32Max

\* C15, as stated: with a budget B and no budget update, tokens_used exceeds
\* B by at most the token cost of one request, however many requests are in
\* flight.
C15_OverrunOneRequest ==
    (tokenBudget # NoBudget /\ ~hist.changed)
        => tokensUsed - tokenBudget <= MaxCost

\* C15, amended: with a budget B and no budget update, tokens_used exceeds B
\* by less than the token cost of one request for each request that can be
\* in flight at once.
C15_OverrunPerInFlight ==
    (tokenBudget # NoBudget /\ ~hist.changed)
        => tokensUsed - tokenBudget < NProc * MaxCost

\* C15 witness: every task had passed the check before the first commit, and
\* the commits together overran the budget by more than one request's cost.
C15_Witness ==
    /\ tokenBudget # NoBudget /\ ~hist.changed
    /\ tokensUsed - tokenBudget > MaxCost
    /\ \A p \in Procs : bpc[p] = "done" /\ bloc[p].identity.tokens_used = 0

\* C16: with a budget B and no budget update, whatever was committed came
\* from requests authenticated while the store's tokens_used was below B, so
\* tokens_used - B is at most the sum of their costs, and below P x C for P
\* tasks and a per-request cost of at most C.
C16_OverrunFromAdmitted ==
    (tokenBudget # NoBudget /\ ~hist.changed)
        => /\ hist.charged = hist.admitted
           /\ tokensUsed - tokenBudget <= hist.admitted
           /\ tokensUsed - tokenBudget <= NProc * MaxCost - 1

\* C16 witness: the budget was overrun by requests admitted below it, and a
\* request that came after was refused.
C16_Witness ==
    /\ tokenBudget # NoBudget /\ ~hist.changed
    /\ tokensUsed > tokenBudget
    /\ hist.admitted = tokensUsed
    /\ \E p \in Procs : bpc[p] = "done" /\ bloc[p].status = 429

\* C17: a non-streaming request whose upstream answered with a JSON body
\* gives the client the upstream status and body unchanged; once its logging
\* task is done there is one log row, and when the body reports
\* usage.total_tokens = T > 0 the row carries T and tokens_used has grown by
\* exactly T, while without a positive total tokens_used is unchanged.
C17_NonStreamUsageCommitted ==
    (~req.is_stream /\ hpc = "returned" /\ upState = "eof")
        => /\ req.status = req.up_status
           /\ client = upChunks
           /\ (apc = "done" /\ ~agg.log_err /\ ~agg.incr_err)
                => LET T == TotalIn(upChunks[1]) IN
                   /\ Len(requestLogs) = 1
                   /\ IF T # NoUsage /\ T > 0
                      THEN requestLogs[1].total_tokens = T /\ tokensUsed = T
                      ELSE tokensUsed = 0

\* C18: as long as usage has not been reset, the store's tokens_used is its
\* initial value (0) plus the sum of all deltas committed, whatever the
\* interleaving of the commits: no increment is lost.
C18_NoLostIncrement == ~hist.reset => tokensUsed = hist.charged

\* C18 witness: every task authenticated before any commit, and all of them
\* committed a positive total.
C18_Witness ==
    /\ ~hist.reset
    /\ \A p \in Procs :
         /\ bpc[p] = "done" /\ bloc[p].cost > 0
         /\ bloc[p].identity.tokens_used = 0
    /\ tokensUsed >= NProc

\* C19: tokens_used decreases only in an update_key_budget step with
\* reset_usage = true, and every request about to call
\* increment_tokens_used holds a strictly positive delta.
C19_UsageMonotone ==
    /\ [][tokensUsed' < tokensUsed
            => (hist'.updates = hist.updates + 1 /\ hist'.last_reset)]_vars
    /\ [](\A p \in Procs : bpc[p] = "b_commit" => bloc[p].cost > 0)

\* C19 witness: usage that had been committed was reset to 0.
C19_Witness ==
    /\ hist.last_reset /\ hist.charged > 0 /\ tokensUsed = 0

\* C20: the body built for the upstream has stream_options =
\* {include_usage: true} when the request had stream = true and no
\* stream_options; a stream_options that was present, null included, is sent
\* as it came; without stream = true nothing is added.
C20_StreamOptionsRewrite ==
    (req.sent_options # "unsent")
        => req.sent_options =
              IF req.stream = "true" /\ req.stream_options = "absent"
              THEN "include_usage"
              ELSE req.stream_options

\* C20 witness: a streaming request that brought its own stream_options
\* was forwarded.
C20_Witness ==
    /\ hpc = "send"
    /\ req.stream = "true" /\ req.stream_options = "custom"
    /\ req.sent_options = "custom"

\* The upstream request of the request in hand has been built.
Forwarded == fwd.up # NoUpstreamReq

C22_HeaderPassthrough ==
    Forwarded =>
        /\ fwd.up.authorization = <<"provider", fwd.api_key>>
        /\ IF fwd.provider_kind = "openrouter"
           THEN /\ fwd.up.referer = fwd.referer
                /\ fwd.up.title = fwd.title
                /\ fwd.up.organization = NoHeader
           ELSE /\ fwd.up.organization = fwd.organization
                /\ fwd.up.referer = NoHeader
                /\ fwd.up.title = NoHeader

\* C22 witness: a request that carries all three headers was sent to an
\* openrouter provider with the first two only.
C22_Witness ==
    /\ fwd.calls = 1
    /\ fwd.provider_kind = "openrouter"
    /\ fwd.referer # NoHeader /\ fwd.title # NoHeader
    /\ fwd.organization # NoHeader
    /\ fwd.up.referer = fwd.referer
    /\ fwd.up.organization = NoHeader

\* C23 as stated: a request that passes the budget check and resolves to
\* no route is answered 400 with the message naming the model and the
\* upstream is not called; any failure of the cache or of the store during
\* the resolution is answered 500.
C23_UnknownModel ==
    [][fpc = "resolve"
          => /\ ~BudgetExhausted(fwd.identity)
             /\ fwd'.resolved = "none"
                   => /\ fpc' = "returned" /\ fwd'.calls = 0 /\ ~Forwarded'
                      /\ fwd'.status = 400
                      /\ fwd'.msg = <<"not_configured", fwd.model>>
             /\ fwd'.failure # "none"
                   => /\ fpc' = "returned" /\ fwd'.calls = 0 /\ ~Forwarded'
                      /\ fwd'.status = 500]_vars

\* C23, amended: the same, with 500 for a failure of the cache lookup or of
\* the store query; a failed cache back-fill does not change the answer and
\* the request is forwarded with the route the store returned.
C23_UnknownModelLookup ==
    [][fpc = "resolve"
          => /\ ~BudgetExhausted(fwd.identity)
             /\ fwd'.resolved = "none"
                   => /\ fpc' = "returned" /\ fwd'.calls = 0 /\ ~Forwarded'
                      /\ fwd'.status = 400
                      /\ fwd'.msg = <<"not_configured", fwd.model>>
             /\ fwd'.failure \in {"hget", "select"}
                   => /\ fpc' = "returned" /\ fwd'.calls = 0 /\ ~Forwarded'
                      /\ fwd'.status = 500
                      /\ fwd'.msg = <<"internal">>
             /\ fwd'.failure = "hset"
                   => fpc' = "send" /\ Forwarded']_vars
    /\ [](fwd.calls > 0 => fwd.resolved = "some")

\* C23 witness: a request for a model with no route was answered 400.
C23_Witness ==
    /\ fpc = "returned"
    /\ fwd.resolved = "none"
    /\ fwd.failure = "none"
    /\ fwd.status = 400
    /\ fwd.msg = <<"not_configured", fwd.model>>
    /\ fwd.calls = 0

\* C24: the upstream is called at most once for a request, whether the send
\* fails, the status is not 2xx, or reading the body fails.
C24_AtMostOneUpstreamCall ==
    /\ fwd.calls <= 1
    /\ (fpc = "returned" /\ fwd.status = 502) => fwd.calls = 1

\* C24 witness: a request ended with 502 after a non-2xx upstream status
\* whose body could not be read.
C24_Witness ==
    /\ fpc = "returned"
    /\ fwd.msg = <<"read">>
    /\ fwd.calls = 1

\* The steps of the two logging tasks that get an answer from the store.
Accounting == apc \in {"insert", "incr", "ns_insert", "ns_incr"} /\ apc' # apc

\* C25: no step of the logging tasks, whether the store accepts or refuses
\* the insert or the increment, changes the status or the body the client
\* gets; and after a refused insert the increment of a positive total is
\* still attempted.
C25_AccountingErrorsSwallowed ==
    /\ [][Accounting
             => /\ req' = req /\ client' = client /\ body' = body
                /\ upChunks' = upChunks /\ hpc' = hpc
                /\ (apc \in {"insert", "ns_insert"} /\ agg'.log_err
                      /\ agg.total # NoUsage /\ agg.total > 0)
                      => apc' \in {"incr", "ns_incr"}]_vars
    /\ (agg.log_err /\ agg.total # NoUsage /\ agg.total > 0)
          ~> agg.incr_tried

\* C25 witness: the insert of a streaming request was refused, its usage
\* was committed all the same, and the client had the whole body.
C25_Witness ==
    /\ req.is_stream /\ apc = "done"
    /\ agg.log_err /\ requestLogs = << >>
    /\ agg.incr_tried /\ ~agg.incr_err /\ tokensUsed > 0
    /\ body = "dropped" /\ upState = "eof" /\ client = upChunks

\* C26: the handler of a streaming request returns with no chunk of the
\* upstream body pulled; a chunk is pulled only by a poll of the client-facing
\* body and is handed to the client in that same poll; and a chunk the
\* upstream has produced can be polled whatever the upstream sends later and
\* wherever the aggregator stands.
C26_HeadersBeforeBody ==
    /\ [][/\ (hpc # "returned" /\ hpc' = "returned" /\ req'.is_stream
                 /\ body' = "live")
                => (polled' = 0 /\ client' = << >> /\ chan' = << >>)
          /\ polled' # polled
                => /\ hpc = "returned" /\ body = "live"
                   /\ polled' = polled + 1
                   /\ client' = Append(client, upChunks[polled'])
         ]_vars
    /\ [](Len(client) = polled \/ ~req.is_stream)
    /\ []((body = "live" /\ polled < Len(upChunks)) => ENABLED PollNext)

\* C26 witness: the client has the first chunk while the upstream is still
\* open and the aggregator has not yet taken the copy off the channel.
C26_Witness ==
    /\ body = "live" /\ upState = "open"
    /\ polled = 1 /\ client = <<upChunks[1]>>
    /\ apc = "recv" /\ chan # << >> /\ agg.buffer = << >>

\* C27: after cleanup_old_logs(D) at time now, the rows left are exactly
\* those with created_at >= now - D days, in any table, and the count
\* returned is the number of rows deleted.
C27_CleanupExact ==
    sweep.result = "ok" =>
        LET D == sweep.retention_days
            young(t) == t >= sweep.at - D * DayLen IN
        /\ sweep.after = SelectSeq(sweep.before, young)
        /\ sweep.count = Len(sweep.before) - Len(sweep.after)

\* C28: with retention_days > 0 the first thing the task does is a cleanup,
\* cleanups and one-hour sleeps alternate for ever, and a cleanup that
\* returned Err is followed by another cleanup; with retention_days = 0 no
\* cleanup runs and no row is deleted.
C28_SweeperLoop ==
    /\ [](sweep.retention_days > 0
            => /\ spc \in {"cleanup", "sleep"}
               /\ (spc = "cleanup" /\ sweep.runs < MaxRuns)
                     => sweep.runs = sweep.sleeps
               /\ (spc = "sleep" /\ sweep.runs < MaxRuns)
                     => sweep.runs = sweep.sleeps + 1)
    /\ [](sweep.retention_days > 0 => <>(spc = "cleanup"))
    /\ [](sweep.retention_days > 0 => <>(spc = "sleep"))
    /\ [][sweep.retention_days > 0 /\ spc = "sleep" => now' >= now]_vars
    /\ (spc = "sleep" /\ sweep.result = "err") ~> (spc = "cleanup")
    /\ [](sweep.retention_days = 0
            => spc = "off" /\ sweep.runs = 0 /\ ~sweep.deleted)
    /\ [][sweep.retention_days = 0 => IsPrefix(logTimes, logTimes')]_vars

\* C28 witness: a cleanup failed, and after a later sleep a cleanup ran and
\* deleted a row.
C28_Witness ==
    /\ sweep.failed /\ sweep.runs >= 2 /\ sweep.sleeps >= 1
    /\ spc = "sleep" /\ sweep.result = "ok" /\ sweep.count > 0
    /\ sweep.retention_days \in 1..I32Max

\* The lines of the buffer that are data lines with parseable JSON.
Events(buffer) == LET parsed(l) == l.kind = "json" IN SelectSeq(buffer, parsed)

\* The positions of the events that carry a usage object.
WithUsage(events) ==
    {i \in 1..Len(events) : events[i].usage.kind = "object"}

\* The counter f as the last event that holds one reports it.
LastCounter(events, f) ==
    LET S == {i \in WithUsage(events) : events[i].usage[f] # NoUsage} IN
    IF S = {} THEN NoUsage
    ELSE events[CHOOSE i \in S : \A j \in S : j <= i].usage[f]

\* C29: a buffer without a data line of parseable JSON gives (None, None,
\* None, None); the lines that do not parse have no effect on what the
\* other lines give; and the array returned holds the parsed events in the
\* order of the buffer.
C29_ParserSkipsBadLines ==
    ppc = "done" =>
        LET events == Events(sse.buffer) IN
        /\ events = << >> => (sse.out = NoParsed /\ ~sse.some)
        /\ sse.some <=> events # << >>
        /\ sse.out.all_chunks = [i \in 1..Len(events) |-> events[i].usage]
        /\ sse.out.prompt_tokens = LastCounter(events, "prompt_tokens")
        /\ sse.out.completion_tokens = LastCounter(events, "completion_tokens")
        /\ sse.out.total_tokens = LastCounter(events, "total_tokens")

\* C29 witness: two different events with a line that does not parse
\* between them; the usage of the first one is returned.
C29_Witness ==
    /\ ppc = "done" /\ Len(sse.buffer) = 3
    /\ sse.buffer[1].kind = "json" /\ sse.buffer[2].kind = "bad"
    /\ sse.buffer[3].kind = "json"
    /\ sse.buffer[1].usage.kind = "object" /\ sse.buffer[3].usage.kind = "missing"
    /\ sse.out.all_chunks = <<sse.buffer[1].usage, sse.buffer[3].usage>>
    /\ sse.out.total_tokens = sse.buffer[1].usage.total_tokens
    /\ sse.out.total_tokens # NoUsage

\* C30: when two or more events carry a usage object, the three counters
\* returned are those of the last of them, whichever fields each holds.
C30_LastUsageWins ==
    (ppc = "done" /\ Cardinality(WithUsage(Events(sse.buffer))) >= 2)
        => LET events == Events(sse.buffer)
               S == WithUsage(events)
               last == events[CHOOSE i \in S : \A j \in S : j <= i].usage IN
           /\ sse.out.prompt_tokens = last.prompt_tokens
           /\ sse.out.completion_tokens = last.completion_tokens
           /\ sse.out.total_tokens = last.total_tokens

\* C31: rotate_key(id) on an id with no active row ends with NotFound and
\* changes neither the store nor the cache, and no step of a rotate_key
\* call writes to the row or adds a hash to the cache once the row is
\* inactive, whatever delete_key did since the call's SELECT.
C31_RotateInactiveNotFound ==
    [][\A p \in Procs :
          /\ (pc[p] = "idle" /\ loc'[p].op = "rotate"
                 /\ loc'[p].res # "error" /\ ~ActiveRowById(loc'[p].id))
               => /\ loc'[p].res = "not_found" /\ pc'[p] = "done"
                  /\ keys' = keys /\ redisKeys' = redisKeys
          /\ (loc[p].op = "rotate" /\ pc[p] \in {"r_update", "r_sadd"}
                 /\ pc'[p] # pc[p] /\ ~ActiveRowById(loc[p].id))
               => /\ keys' = keys
                  /\ redisKeys' \subseteq redisKeys
      ]_vars

\* C32: no step of create_key, rotate_key, delete_key, update_key_budget,
\* increment_tokens_used, validate_key or warm-up turns is_active of a row
\* from FALSE to TRUE or removes the row, and the SELECT of a validate_key
\* call never yields the id of a row that is inactive.
C32_InactiveStaysInactive ==
    [][/\ \A i \in KeyIds :
            (keys[i].present /\ ~keys[i].is_active)
                => (keys'[i].present /\ ~keys'[i].is_active)
       /\ \A p \in Procs :
            (loc'[p].key_id # loc[p].key_id /\ loc'[p].key_id # NoId)
                => /\ keys[loc'[p].key_id].is_active
                   /\ keys[loc'[p].key_id].key_hash = loc'[p].hash
      ]_vars

\* C32 witness: a key is inactive, its budget was changed and usage was
\* added to it, its hash is still in the cache, and a validate_key call
\* for that hash was refused.
C32_Witness ==
    \E p \in Procs, i \in KeyIds :
        /\ keys[i].present /\ ~keys[i].is_active
        /\ keys[i].token_budget # NoKeyBudget /\ keys[i].tokens_used > 0
        /\ pc[p] = "done" /\ loc[p].op = "validate"
        /\ loc[p].hash = keys[i].key_hash
        /\ loc[p].exists /\ loc[p].res = "invalid"

\* C33: after a delete_key that stopped between its UPDATE and its SREM, a
\* validate_key call for that hash obtains no identity, and when it has
\* returned the hash is in the cache only if it is the hash of an active
\* key of the store.
C33_HaltedDeleteRepaired ==
    \A p \in Procs :
        (pc[p] = "done" /\ loc[p].op = "validate" /\ loc[p].torn
            /\ loc[p].solo /\ loc[p].res # "error")
            => /\ loc[p].res = "invalid"
               /\ (loc[p].hash \in redisKeys) => (loc[p].hash \in ActiveHashes)

\* C34: for a streaming request, what the aggregator has received together
\* with what is still in the channel is at every moment the sequence of
\* chunks yielded to the client-facing body, in order, and the buffer the
\* aggregator parses is that whole sequence.
C34_TeeBufferIsClientBody ==
    req.is_stream
        => /\ agg.buffer \o chan = client
           /\ (agg.runs >= 1) => (chan = << >> /\ agg.buffer = client)

\* C34 witness: the aggregator has parsed a buffer of two different chunks
\* after the client left before the end of the upstream body.
C34_Witness ==
    /\ req.is_stream /\ agg.runs = 1
    /\ Len(agg.buffer) = 2 /\ agg.buffer[1] # agg.buffer[2]
    /\ upState = "aborted"

\* C35: a validate_key call whose store lookup found the active row returns
\* the key identity whether the back-fill SADD that follows succeeds or
\* fails, so that user_key_auth runs the handler.
C35_BackfillBestEffort ==
    [][\A p \in Procs :
          (pc[p] = "v_sadd" /\ pc'[p] = "done")
              => /\ loc'[p].res = "valid"
                 /\ loc'[p].key_id = loc[p].key_id
                 /\ AuthResponse(loc'[p].res) = 0
      ]_vars

\* C36: when a rotate_key call that ran alone returns an error from its
\* SREM, its UPDATE or its SADD, the hash that was valid before the call
\* still selects the key; when it returns success, the new hash selects
\* that same key.
C36_RotateAtomicOnFailure ==
    \A p \in Procs :
        (pc[p] = "done" /\ loc[p].op = "rotate" /\ loc[p].solo)
            => /\ (loc[p].res = "error" /\ loc[p].at # "select")
                    => ValidateSelect(loc[p].old) = loc[p].id
               /\ (loc[p].res = "ok")
                    => ValidateSelect(loc[p].new) = loc[p].id

\* C37: when a create_key call that ran alone has returned an error, the
\* store holds no active row written by that call.
C37_FailedCreateLeavesNoKey ==
    \A p \in Procs :
        (pc[p] = "done" /\ loc[p].op = "create" /\ loc[p].res = "error"
            /\ loc[p].solo)
            => \A i \in KeyIds :
                   ~(keys[i].present /\ keys[i].is_active
                        /\ keys[i].key_hash = loc[p].new /\ loc[p].id = i)

\* C38: a step of rotate_key(id) changes in the store at most key_hash of
\* row id (is_active, token_budget and tokens_used of that row and every
\* other row stay as they are), and in the cache at most the membership of
\* the old and of the new hash.
C38_RotateFrame ==
    [][\A p \in Procs :
          (/\ loc'[p].op = "rotate"
           /\ pc'[p] # pc[p]
           /\ pc[p] \in {"idle", "r_srem", "r_update", "r_sadd"})
              => /\ \A i \in KeyIds :
                       IF i = loc'[p].id
                       THEN [keys'[i] EXCEPT !.key_hash = keys[i].key_hash]
                                = keys[i]
                       ELSE keys'[i] = keys[i]
                 /\ (redisKeys' \ redisKeys) \cup (redisKeys \ redisKeys')
                        \subseteq {loc'[p].old, loc'[p].new}
      ]_vars

\* C38 witness: a rotate_key call succeeded on a key that has a budget and
\* usage, while a second key exists; the old hash has left the cache and
\* the new one is in it.
C38_Witness ==
    \E p \in Procs, j \in KeyIds :
        /\ pc[p] = "done" /\ loc[p].op = "rotate" /\ loc[p].res = "ok"
        /\ keys[loc[p].id].token_budget # NoKeyBudget
        /\ keys[loc[p].id].tokens_used > 0
        /\ j # loc[p].id /\ keys[j].present
        /\ loc[p].old \notin redisKeys /\ loc[p].new \in redisKeys

\* C39: a request that the gateway itself answers 401, 400 or 429 has made
\* no upstream call, has no row in request_logs and has changed no key's
\* tokens_used; and a request reaches the upstream only after validate_key
\* returned an identity for it.
C39_RejectedRequestsTouchNothing ==
    /\ (fpc = "returned" /\ fwd.status \in {400, 401, 429} /\ fwd.msg # << >>)
          => /\ fwd.calls = 0
             /\ fwd.logs = << >> /\ fwd.log_calls = 0
             /\ fwd.incr_calls = 0
             /\ \A i \in KeyIds : fwd.used[i] = 0
    /\ (fwd.calls > 0) => (fwd.auth = "valid" /\ fwd.key_id \in KeyIds)

\* C39 witness: an authenticated request was answered 429 by the budget
\* check.
C39_Witness ==
    /\ fpc = "returned" /\ fwd.status = 429 /\ fwd.msg # << >>
    /\ fwd.auth = "valid"

\* C40: within one forwarded request the usage increment is attempted at
\* most once, only after the log insert was attempted, and only the
\* tokens_used of the authenticated key changes, by the total_tokens of
\* the response.
C40_IncrementOncePerRequest ==
    /\ fwd.incr_calls <= 1
    /\ (fwd.incr_calls = 1 \/ fpc = "incr") => fwd.log_calls = 1
    /\ \A i \in KeyIds :
          (i # fwd.key_id \/ fwd.incr_calls = 0) => fwd.used[i] = 0
    /\ (fwd.key_id \in KeyIds) => fwd.used[fwd.key_id] \in {0, fwd.usage}

\* C40 witness: the log insert of a request failed and its usage was then
\* added to the second key, the one that was authenticated.
C40_Witness ==
    /\ fpc = "returned" /\ fwd.log_calls = 1 /\ fwd.logs = << >>
    /\ fwd.incr_calls = 1 /\ fwd.key_id = MaxKeys
    /\ fwd.used[MaxKeys] > 0
====
